---- MODULE Spec2Model ----
(***************************************************************************)
(* The gradient-descent optimizer core of the visualizer widget            *)
(* (GradientDescentOptimizer, src/unnamed/part_001) driven by an arbitrary *)
(* caller, with the quadratic bowl of math/functions.js as objective.      *)
(*                                                                         *)
(* Every public method is one action; runSteps and runToConvergence run    *)
(* their loops to the end within the action, as the synchronous code does. *)
(* The methods are operators on the optimizer object as a record (Self),   *)
(* so that the loops can call step() as the code does.                     *)
(*                                                                         *)
(* Numbers.  JavaScript doubles are modelled as fixed-point integers with  *)
(* Scale units per 1.0; products are rounded to the nearest unit (FMul),   *)
(* as every floating-point product is rounded.  null and the non-finite    *)
(* results of a division are kept apart from numbers as tagged values      *)
(* (Num, NullV, NaNV, InfV).  Configurations use step sizes, a tolerance   *)
(* and a momentum that fixed point represents exactly.                     *)
(*                                                                         *)
(* Besides the optimizer's fields the state holds the clock reading, the   *)
(* caller's last call with its result (ret), and history variables         *)
(* (lifecycle, resets, terminalReached, runStart, terminalAt) that only    *)
(* record what has been called and when.                                   *)
(*                                                                         *)
(* Specifications.  Spec: one optimizer on the quadratic bowl, every       *)
(* method, one clock reading.  SpecTimed: the same with the clock moving.  *)
(* SpecTwo: two optimizers built from the same function and config.        *)
(* SpecBuiltIn: optimizers on the three built-in functions, started at the *)
(* minimum each declares.  SpecCustom: CustomFunction objects built from   *)
(* token sequences and evaluated.  SpecBowl: the bowl scenario of the      *)
(* documentation (start (2,2), learningRate 0.1, tolerance 1e-6) on        *)
(* floating-point numbers.  SpecOnCustom: an optimizer on a               *)
(* CustomFunction, whose values and gradients may be NaN.  SpecExport: the *)
(* methods of Spec with exportData() keeping the bundle it returns.        *)
(* SpecVisualizer: a GradientDescentVisualizer driven by a user (play,     *)
(* pause, step, reset, setFunction, setStartPosition, setLearningRate) and *)
(* by the browser, which runs the pending animation-frame callbacks in any *)
(* order.  SpecPlayback: an autoPlay visualizer left to play, with the     *)
(* callbacks delivered fairly.                                             *)
(***************************************************************************)
EXTENDS Integers, Sequences, FiniteSets, TLC

\* ------------------------------------------------------------- bounds ---
\* Fractional bits of the fixed-point numbers.
FracBits == 3
\* Largest maxIterations a configuration is given.
MaxIters == 2
\* Last reading of the performance.now() clock.
MaxTime == 2
\* Largest count passed to runSteps.
MaxSteps == 2
\* Most reset() calls between two initialize calls.
MaxResets == 1
\* Most tokens in the expression of a custom function.
MaxTokens == 3
\* animation-frame callbacks pending at once before play() is no longer called
MaxFrames == 2
\* onConvergence calls counted between two initializations of the optimizer
MaxCalls == 2

Scale == 2 ^ FracBits
Half == Scale \div 2
Quarter == Scale \div 4

\* ------------------------------------------------------------ numbers ---
\* a * b on fixed-point numbers, rounded to the nearest unit.
FMul(a, b) == (2 * a * b + Scale) \div (2 * Scale)

Abs(a) == IF a < 0 THEN -a ELSE a

\* Math.sqrt of a sum of two fixed-point squares (Scale^2 units), in Scale
\* units, rounded down: the r with r*r <= n < (r+1)*(r+1).
RECURSIVE Sqrt(_)
Sqrt(n) ==
  IF n < 2 THEN n
  ELSE LET s == 2 * Sqrt(n \div 4)
       IN IF (s + 1) * (s + 1) > n THEN s ELSE s + 1

\* Math.pow(b, n) for a non-negative integer n.
RECURSIVE Pow(_, _)
Pow(b, n) == IF n = 0 THEN Scale ELSE FMul(b, Pow(b, n - 1))

\* Tagged JavaScript values: a number, null, NaN, +/-Infinity.
Num(v) == [kind |-> "num", v |-> v]
NullV == [kind |-> "null", v |-> 0]
NaNV == [kind |-> "nan", v |-> 0]
InfV(sign) == [kind |-> "inf", v |-> sign]

\* ToBoolean: null, 0 and NaN are falsy.
Truthy(j) == j.kind = "inf" \/ (j.kind = "num" /\ j.v # 0)
\* ToNumber: null is 0.
ToNumber(j) == IF j.kind = "null" THEN 0 ELSE j.v

\* a - b on timing fields (numbers or null).
JSub(a, b) == Num(ToNumber(a) - ToNumber(b))

\* a / b of two finite numbers given in the same unit; the quotient is a
\* fixed-point number, or NaN (0/0) or an infinity (x/0).
JDiv(a, b) ==
  IF b # 0 THEN Num((2 * a * Scale + b) \div (2 * b))
  ELSE IF a = 0 THEN NaNV
  ELSE InfV(IF a > 0 THEN 1 ELSE -1)

\* j * k for a tagged j and a positive integer k.
JTimes(j, k) == IF j.kind = "num" THEN Num(j.v * k) ELSE j

\* ------------------------------------------- floating-point numbers ---
\* Where a run depends on the relative precision of doubles, a number is a
\* decimal floating-point number [m, e] of value m * 10^e, with m = 0 or a
\* mantissa of eight digits, and every operation rounds its exact result to
\* eight digits.  A mantissa is two limbs of four digits, so that no
\* intermediate result leaves the range of 32-bit integers.
Limb == 10000
DecUnit == Limb * Limb
MantLo == DecUnit \div 10

Sgn(m) == IF m < 0 THEN 0 - 1 ELSE 1

RECURSIVE Pow10(_)
Pow10(k) == IF k = 0 THEN 1 ELSE 10 * Pow10(k - 1)

\* m * 10^e with the mantissa brought to eight digits, rounding to nearest.
RECURSIVE DecNorm(_, _)
DecNorm(m, e) ==
  IF m = 0 THEN [m |-> 0, e |-> 0]
  ELSE IF Abs(m) >= DecUnit THEN DecNorm(Sgn(m) * ((Abs(m) + 5) \div 10), e + 1)
  ELSE IF Abs(m) < MantLo THEN DecNorm(m * 10, e - 1)
  ELSE [m |-> m, e |-> e]

\* The double nearest to the decimal literal m * 10^e.
Dec(m, e) == DecNorm(m, e)

\* a + b: the operand of the lower exponent is shifted, keeping one guard
\* digit, and dropped when it lies below the last digit of the other.
DecAdd(a, b) ==
  IF a.m = 0 THEN b
  ELSE IF b.m = 0 THEN a
  ELSE LET hi == IF a.e >= b.e THEN a ELSE b
           lo == IF a.e >= b.e THEN b ELSE a
           d == hi.e - lo.e
           shifted == IF d = 0 THEN lo.m * 10
                      ELSE LET p == Pow10(d - 1)
                           IN Sgn(lo.m) * ((2 * Abs(lo.m) + p) \div (2 * p))
       IN IF d > 9 THEN hi ELSE DecNorm(hi.m * 10 + shifted, hi.e - 1)

DecNeg(a) == [m |-> 0 - a.m, e |-> a.e]

\* a - b
DecSub(a, b) == DecAdd(a, DecNeg(b))

\* a < b
DecLess(a, b) == DecSub(a, b).m < 0

\* The exact product of two mantissas A, B < 10^8 as hi * 10^8 + lo.
WideProduct(A, B) ==
  LET A1 == A \div Limb
      A0 == A % Limb
      B1 == B \div Limb
      B0 == B % Limb
      mid == A1 * B0 + A0 * B1
      low == (mid % Limb) * Limb + A0 * B0
  IN [hi |-> A1 * B1 + mid \div Limb + low \div DecUnit, lo |-> low % DecUnit]

\* a * b
DecMul(a, b) ==
  IF a.m = 0 \/ b.m = 0 THEN [m |-> 0, e |-> 0]
  ELSE LET p == WideProduct(Abs(a.m), Abs(b.m))
           sign == Sgn(a.m) * Sgn(b.m)
       IN IF p.hi >= MantLo
          THEN DecNorm(sign * (p.hi + (IF 2 * p.lo >= DecUnit THEN 1 ELSE 0)),
                       a.e + b.e + 8)
          ELSE DecNorm(sign * (p.hi * 10 + (p.lo + MantLo \div 2) \div MantLo),
                       a.e + b.e + 7)

\* The largest r with lo <= r < hi and r * r <= R, for lo * lo <= R < hi * hi.
RECURSIVE SqrtSearch(_, _, _)
SqrtSearch(lo, hi, R) ==
  IF hi - lo <= 1 THEN lo
  ELSE LET mid == (lo + hi) \div 2
           sq == WideProduct(mid, mid)
       IN IF sq.hi < R.hi \/ (sq.hi = R.hi /\ sq.lo <= R.lo)
          THEN SqrtSearch(mid, hi, R)
          ELSE SqrtSearch(lo, mid, R)

\* Math.sqrt(a) for a >= 0, to eight digits.
DecSqrt(a) ==
  IF a.m = 0 THEN a
  ELSE IF (a.e - 8) % 2 = 0
  THEN DecNorm(SqrtSearch(0, DecUnit, [hi |-> a.m, lo |-> 0]), (a.e - 8) \div 2)
  ELSE DecNorm(SqrtSearch(0, DecUnit, [hi |-> a.m \div 10, lo |-> (a.m % 10) * MantLo]),
               (a.e - 7) \div 2)

\* Math.pow(b, n) for a non-negative integer n.
RECURSIVE DecPow(_, _)
DecPow(b, n) == IF n = 0 THEN Dec(1, 0) ELSE DecMul(b, DecPow(b, n - 1))

\* ------------------------------------------------- objective function ---
\* quadraticBowl.value: (x-1)^2 + (y-1)^2
quadraticValue(x, y) == FMul(x - Scale, x - Scale) + FMul(y - Scale, y - Scale)

\* quadraticBowl.gradient: {dx: 2(x-1), dy: 2(y-1)}
quadraticGradient(x, y) == [dx |-> 2 * (x - Scale), dy |-> 2 * (y - Scale)]

\* rosenbrock.value: 100(y - x^2)^2 + (1 - x)^2
rosenbrockValue(x, y) ==
  LET term == y - FMul(x, x)
  IN 100 * FMul(term, term) + FMul(Scale - x, Scale - x)

\* rosenbrock.gradient: {dx: -400 x (y - x^2) - 2(1 - x), dy: 200(y - x^2)}
rosenbrockGradient(x, y) ==
  LET term == y - FMul(x, x)
  IN [dx |-> (0 - FMul(400 * x, term)) - 2 * (Scale - x), dy |-> 200 * term]

\* Math.PI
PI == (355 * Scale + 56) \div 113

\* Math.sin(2 * Math.PI * x) to the nearest fixed-point unit: x is reduced
\* to a fraction k/Scale of a turn, and each half wave is the rational
\* 32w / (5 - 8w), w = u(1 - 2u), of the fraction u of the turn.
Sin2Pi(x) ==
  LET k == x % Scale
      wave(j) == LET p == j * (Scale - 2 * j)
                     den == 5 * Scale * Scale - 8 * p
                 IN (2 * 32 * p * Scale + den) \div (2 * den)
  IN IF 2 * k <= Scale THEN wave(k) ELSE 0 - wave(k - Half)

\* Math.cos(2 * Math.PI * x): the sine a quarter turn on.
Cos2Pi(x) == Sin2Pi(x + Quarter)

\* rastrigin.value: 2A + (x^2 - A cos(2 pi x)) + (y^2 - A cos(2 pi y))
rastriginValue(x, y) ==
  LET A == 10
  IN 2 * A * Scale + (FMul(x, x) - A * Cos2Pi(x)) + (FMul(y, y) - A * Cos2Pi(y))

\* rastrigin.gradient: {dx: 2x + 2 pi A sin(2 pi x), dy: 2y + 2 pi A sin(2 pi y)}
rastriginGradient(x, y) ==
  LET A == 10
  IN [dx |-> 2 * x + 2 * A * FMul(PI, Sin2Pi(x)),
      dy |-> 2 * y + 2 * A * FMul(PI, Sin2Pi(y))]

\* The function the optimizers of Spec, SpecTimed and SpecTwo work on.
Funcs == {"quadratic"}

\* getBuiltInFunctions()
BuiltInFuncs == {"quadratic", "rosenbrock", "rastrigin"}

\* Variant of globalMinimum: every function declares its minimum at (1,1).
globalMinimumAtOneOne(f) == [x |-> Scale, y |-> Scale, value |-> 0]

\* The globalMinimum each built-in function declares.
globalMinimum(f) ==
  IF f = "rastrigin" THEN [x |-> 0, y |-> 0, value |-> 0]
  ELSE [x |-> Scale, y |-> Scale, value |-> 0]

\* this.func.value(x, y)
funcValue(f, x, y) ==
  IF f = "rosenbrock" THEN rosenbrockValue(x, y)
  ELSE IF f = "rastrigin" THEN rastriginValue(x, y)
  ELSE quadraticValue(x, y)

\* this.func.gradient(x, y)
funcGradient(f, x, y) ==
  IF f = "rosenbrock" THEN rosenbrockGradient(x, y)
  ELSE IF f = "rastrigin" THEN rastriginGradient(x, y)
  ELSE quadraticGradient(x, y)

\* ---------------------------------------------------- custom function ---
\* An expression is a sequence of tokens: the parameters x and y, a name z
\* that is bound nowhere, and the operator *.
Operands == {"x", "y", "z"}
Tokens == Operands \cup {"*"}

RECURSIVE SeqsUpTo(_, _)
SeqsUpTo(S, n) ==
  IF n = 0 THEN {<<>>}
  ELSE LET shorter == SeqsUpTo(S, n - 1)
       IN shorter \cup {Append(e, t) : e \in {q \in shorter : Len(q) = n - 1}, t \in S}

\* new Function('x', 'y', `return ${expression}`) throws no SyntaxError:
\* the text is empty (a bare return) or operands joined by operators.
parses(expression) ==
  \/ Len(expression) = 0
  \/ /\ Len(expression) % 2 = 1
     /\ \A i \in 1..Len(expression) :
          IF i % 2 = 1 THEN expression[i] \in Operands ELSE expression[i] = "*"

\* No CustomFunction has been constructed.
NoCustom == [name |-> "none"]

\* new CustomFunction(expression): the object, or the Error thrown.
newCustomFunction(expression) ==
  IF parses(expression)
  THEN [threw |-> FALSE,
        object |-> [name |-> "Custom Function", expression |-> expression]]
  ELSE [threw |-> TRUE, message |-> "Invalid function expression"]

\* The product of the operands of expression from token i on, at (x, y).
RECURSIVE product(_, _, _, _)
product(expression, i, x, y) ==
  IF i > Len(expression) THEN Scale
  ELSE LET operand == IF expression[i] = "x" THEN x ELSE y
       IN FMul(operand, product(expression, i + 2, x, y))

\* this.valueFunction(x, y): undefined for a bare return, a ReferenceError
\* when the expression names z, the product otherwise.
valueFunction(expression, x, y) ==
  IF Len(expression) = 0 THEN [threw |-> FALSE, val |-> [kind |-> "undefined", v |-> 0]]
  ELSE IF \E i \in 1..Len(expression) : expression[i] = "z"
  THEN [threw |-> TRUE, val |-> NaNV]
  ELSE [threw |-> FALSE, val |-> Num(product(expression, 1, x, y))]

\* CustomFunction.value: what valueFunction throws is caught and NaN returned.
customValue(f, x, y) ==
  LET r == valueFunction(f.expression, x, y)
  IN IF r.threw THEN NaNV ELSE r.val

\* (a - b) / (2 * h) on values that may be NaN or undefined.
centralDifference(a, b, h) ==
  IF a.kind = "num" /\ b.kind = "num" THEN JDiv(a.v - b.v, 2 * h) ELSE NaNV

\* CustomFunction.gradient: central differences with step h, here one unit
\* of the fixed-point numbers.
customGradient(f, x, y) ==
  [dx |-> centralDifference(customValue(f, x + 1, y), customValue(f, x - 1, y), 1),
   dy |-> centralDifference(customValue(f, x, y + 1), customValue(f, x, y - 1), 1)]

\* mathUtils.vectorMagnitude
vectorMagnitude(g) == Sqrt(g.dx * g.dx + g.dy * g.dy)

\* ------------------------------------------------------ configuration ---
\* Step sizes 0.25 (contracts towards the minimum) and 1.0 (oscillates
\* around it for ever).
LearningRates == {Quarter, Scale}
Momenta == {0, Half}
\* tolerance 0.75
Tolerance == (3 * Scale) \div 4

\* The config objects a caller constructs an optimizer with.
Configs ==
  [learningRate : LearningRates,
   maxIterations : 1..MaxIters,
   tolerance : {Tolerance},
   momentum : Momenta,
   adaptiveLearningRate : BOOLEAN,
   initialDecay : {Half}]

\* Starting points handed to initialize: the minimum (1,1), where the
\* gradient is zero, and (1.5,1.5), where it is above the tolerance.
StartPoints == {<<Scale, Scale>>, <<Scale + Half, Scale + Half>>}

VARIABLES
  func,             \* this.func
  config,           \* this.config
  currentPosition,  \* this.currentPosition
  velocity,         \* this.velocity
  iteration,        \* this.iteration
  converged,        \* this.converged
  history,          \* this.history
  isRunning,        \* this.isRunning
  startTime,        \* this.startTime
  endTime,          \* this.endTime
  now,              \* the reading of performance.now()
  lifecycle,        \* "new": initialize never called; "initialized": called,
                    \* and reset not since; "reset": reset since the last initialize
  resets,           \* reset() calls since the last initialize
  terminalReached,  \* the optimizer has been Converged or Exhausted at some
                    \* point since the last initialize
  runStart,         \* clock reading of the first step/runSteps/runToConvergence
                    \* call since the last initialize, null if none yet
  terminalAt,       \* clock reading of the call that first left the optimizer
                    \* Converged or Exhausted since the last initialize, or null
  peer,             \* a second optimizer object, or NoPeer
  configShared,     \* this.config of the two optimizers is one object
  custom,           \* the CustomFunction object the caller holds, or NoCustom
  visualizer,       \* the GradientDescentVisualizer object, or NoVisualizer;
                    \* its this.optimizer is the optimizer above
  frames,           \* ids of the animation-frame callbacks the browser holds
  onConvergenceCalls, \* calls of onConvergence since the visualizer's
                    \* optimizer was last initialized
  paused,           \* pause() has returned and play() was not called since
  bundle,           \* the bundle of an earlier exportData() call the caller
                    \* keeps, or NoBundle
  bundleHistoryLive, \* bundle.history and this.history are one array
  ret               \* the caller's last call: operation, arguments, result

optimizerVars == <<func, config, currentPosition, velocity, iteration, converged,
                   history, isRunning, startTime, endTime>>

visualizerVars == <<visualizer, frames, onConvergenceCalls, paused>>

bundleVars == <<bundle, bundleHistoryLive>>

vars == <<optimizerVars, now, lifecycle, resets, terminalReached, runStart,
          terminalAt, peer, configShared, custom, visualizerVars, bundleVars,
          ret>>

\* The optimizer object as a record.
Self ==
  [func |-> func, config |-> config, currentPosition |-> currentPosition,
   velocity |-> velocity, iteration |-> iteration, converged |-> converged,
   history |-> history, isRunning |-> isRunning, startTime |-> startTime,
   endTime |-> endTime]

\* The optimizer object becomes o.
Install(o) ==
  /\ func' = o.func
  /\ config' = o.config
  /\ currentPosition' = o.currentPosition
  /\ velocity' = o.velocity
  /\ iteration' = o.iteration
  /\ converged' = o.converged
  /\ history' = o.history
  /\ isRunning' = o.isRunning
  /\ startTime' = o.startTime
  /\ endTime' = o.endTime

\* Variant of constructorCopiesConfig: this.config = config, by reference.
constructorKeepsConfigReference == FALSE

\* this.config = {...defaultConfig, ...config}: the constructor builds a new
\* config object for each optimizer.
constructorCopiesConfig == TRUE

\* No second optimizer has been built.
NoPeer == [func |-> "none"]

\* No visualizer has been built.
NoVisualizer == [isPlaying |-> FALSE]

\* The caller keeps no exported bundle.
NoBundle == [history |-> <<>>]

\* new GradientDescentOptimizer(f, c)
construct(f, c) ==
  [func |-> f, config |-> c, currentPosition |-> [x |-> 0, y |-> 0],
   velocity |-> [x |-> 0, y |-> 0], iteration |-> 0, converged |-> FALSE,
   history |-> <<>>, isRunning |-> FALSE, startTime |-> NullV,
   endTime |-> NullV]

\* Variant of getCurrentState: value and gradient are read off the last
\* history record (zero when there is none) instead of being recomputed.
getCurrentStateFromHistory(o) ==
  LET n == Len(o.history)
      gradient == IF n = 0 THEN [dx |-> 0, dy |-> 0] ELSE o.history[n].gradient
  IN [position |-> [x |-> o.currentPosition.x, y |-> o.currentPosition.y],
      functionValue |-> IF n = 0 THEN 0 ELSE o.history[n].functionValue,
      gradient |-> gradient,
      gradientMagnitude |-> vectorMagnitude(gradient),
      iteration |-> o.iteration,
      converged |-> o.converged,
      learningRate |-> o.config.learningRate]

\* getCurrentState(): a fresh snapshot object; position is copied.
getCurrentState(o) ==
  LET x == o.currentPosition.x
      y == o.currentPosition.y
      gradient == funcGradient(o.func, x, y)
  IN [position |-> [x |-> x, y |-> y],
      functionValue |-> funcValue(o.func, x, y),
      gradient |-> gradient,
      gradientMagnitude |-> vectorMagnitude(gradient),
      iteration |-> o.iteration,
      converged |-> o.converged,
      learningRate |-> o.config.learningRate]

\* {...state, timestamp: performance.now()}
HistoryRecord(s, t) ==
  [position |-> s.position, functionValue |-> s.functionValue,
   gradient |-> s.gradient, gradientMagnitude |-> s.gradientMagnitude,
   iteration |-> s.iteration, converged |-> s.converged,
   learningRate |-> s.learningRate, timestamp |-> t]

\* Variant of recordCurrentState: history keeps the latest record only.
recordKeepsLatestOnly(o, t) ==
  [o EXCEPT !.history = <<HistoryRecord(getCurrentState(o), t)>>]

\* recordCurrentState() at clock reading t.
recordCurrentState(o, t) ==
  [o EXCEPT !.history = Append(@, HistoryRecord(getCurrentState(o), t))]

\* Variant of initialize: the old history is not cleared.
initializeKeepsHistory(o, x, y, t) ==
  recordCurrentState(
    [o EXCEPT !.currentPosition = [x |-> x, y |-> y],
              !.velocity = [x |-> 0, y |-> 0],
              !.iteration = 0,
              !.converged = FALSE,
              !.isRunning = FALSE], t)

\* initialize(x, y) at clock reading t.
initialize(o, x, y, t) ==
  recordCurrentState(
    [o EXCEPT !.currentPosition = [x |-> x, y |-> y],
              !.velocity = [x |-> 0, y |-> 0],
              !.iteration = 0,
              !.converged = FALSE,
              !.history = <<>>,
              !.isRunning = FALSE], t)

\* Variant of stepHalted: the guard forgets the iteration ceiling.
stepHaltedIgnoresCeiling(o) == o.converged

\* Variant of stepHalted: the ceiling is compared with > instead of >=.
stepHaltedOffByOne(o) == o.converged \/ o.iteration > o.config.maxIterations

\* step(): the guard of the early return.
stepHalted(o) == o.converged \/ o.iteration >= o.config.maxIterations

\* Variant of haltedExit: the refused call is counted as an iteration.
haltedExitCounts(o) == [o EXCEPT !.isRunning = FALSE, !.iteration = @ + 1]

\* step(): the early return.
haltedExit(o) == [o EXCEPT !.isRunning = FALSE]

\* step(): the convergence test on the gradient at the current position.
withinTolerance(o) ==
  vectorMagnitude(funcGradient(o.func, o.currentPosition.x, o.currentPosition.y))
    < o.config.tolerance

\* Variant of currentLearningRate: the rate is the one the optimizer was
\* initialized with (the rate of the first history record), not the live one.
currentLearningRateFrozen(o) ==
  LET rate == IF Len(o.history) > 0 THEN o.history[1].learningRate
              ELSE o.config.learningRate
  IN IF o.config.adaptiveLearningRate /\ o.iteration > 0
     THEN FMul(rate, Pow(o.config.initialDecay, o.iteration))
     ELSE rate

\* Variant of currentLearningRate: the decay exponent is the iteration count
\* after the increment.
currentLearningRateDecayAfterIncrement(o) ==
  IF o.config.adaptiveLearningRate
  THEN FMul(o.config.learningRate, Pow(o.config.initialDecay, o.iteration + 1))
  ELSE o.config.learningRate

\* step(): the learning rate of this step.
currentLearningRate(o) ==
  IF o.config.adaptiveLearningRate /\ o.iteration > 0
  THEN FMul(o.config.learningRate, Pow(o.config.initialDecay, o.iteration))
  ELSE o.config.learningRate

\* step(): the velocity and position update.
updatePosition(o) ==
  LET x == o.currentPosition.x
      y == o.currentPosition.y
      gradient == funcGradient(o.func, x, y)
      lr == currentLearningRate(o)
      vx == FMul(o.config.momentum, o.velocity.x) - FMul(lr, gradient.dx)
      vy == FMul(o.config.momentum, o.velocity.y) - FMul(lr, gradient.dy)
  IN IF o.config.momentum > 0
     THEN [o EXCEPT !.velocity = [x |-> vx, y |-> vy],
                    !.currentPosition = [x |-> x + vx, y |-> y + vy]]
     ELSE [o EXCEPT !.currentPosition =
                      [x |-> x - FMul(lr, gradient.dx),
                       y |-> y - FMul(lr, gradient.dy)]]

\* Variant of convergedExit: the convergence test is made after the update.
convergedExitAfterUpdate(o, t) ==
  [updatePosition(o) EXCEPT !.converged = TRUE, !.isRunning = FALSE,
                            !.endTime = Num(t)]

\* Variant of convergedExit: the converged state is recorded in history.
convergedExitRecords(o, t) ==
  recordCurrentState(
    [o EXCEPT !.converged = TRUE, !.isRunning = FALSE, !.endTime = Num(t)], t)

\* step(): the exit on convergence, at clock reading t.
convergedExit(o, t) ==
  [o EXCEPT !.converged = TRUE, !.isRunning = FALSE, !.endTime = Num(t)]

\* Variant of acceptStep: the step is not counted.
acceptStepNoIncrement(o, t) == recordCurrentState(updatePosition(o), t)

\* step(): an accepted step: update, count, record.
acceptStep(o, t) ==
  recordCurrentState([updatePosition(o) EXCEPT !.iteration = @ + 1], t)

\* Variant of step: the tolerance is tested before the iteration ceiling.
stepTestsToleranceBeforeCeiling(o, t) ==
  IF o.converged THEN haltedExit(o)
  ELSE IF withinTolerance(o) THEN convergedExit(o, t)
  ELSE IF o.iteration >= o.config.maxIterations THEN haltedExit(o)
  ELSE acceptStep(o, t)

\* step() at clock reading t: the optimizer after the call.
step(o, t) ==
  IF stepHalted(o) THEN haltedExit(o)
  ELSE IF withinTolerance(o) THEN convergedExit(o, t)
  ELSE acceptStep(o, t)

\* What step() returns: in each of its three exits, getCurrentState() of the
\* optimizer as the call leaves it.
stepResult(o, t) == getCurrentState(step(o, t))

\* Which of its three exits a step() call on o takes.
stepExit(o) ==
  IF stepHalted(o) THEN "halted"
  ELSE IF withinTolerance(o) THEN "converged"
  ELSE "advanced"

\* if (!this.isRunning) { this.isRunning = true; this.startTime = now }
startTiming(o, t) ==
  IF ~o.isRunning THEN [o EXCEPT !.isRunning = TRUE, !.startTime = Num(t)] ELSE o

\* k step() calls made one after the other at clock reading t.
RECURSIVE stepTimes(_, _, _)
stepTimes(o, k, t) == IF k = 0 THEN o ELSE stepTimes(step(o, t), k - 1, t)

\* Variant of runStepsLoop: the loop bound is i <= steps, one call too many.
RECURSIVE runStepsLoopOneMore(_, _, _, _)
runStepsLoopOneMore(o, i, steps, t) ==
  IF i <= steps /\ ~o.converged
  THEN LET rest == runStepsLoopOneMore(step(o, t), i + 1, steps, t)
       IN [o |-> rest.o,
           results |-> <<stepResult(o, t)>> \o rest.results,
           calls |-> rest.calls + 1]
  ELSE [o |-> o, results |-> <<>>, calls |-> 0]

\* Variant of runStepsLoop: the loop runs to the count whatever converged is.
RECURSIVE runStepsLoopIgnoresConverged(_, _, _, _)
runStepsLoopIgnoresConverged(o, i, steps, t) ==
  IF i < steps
  THEN LET rest == runStepsLoopIgnoresConverged(step(o, t), i + 1, steps, t)
       IN [o |-> rest.o,
           results |-> <<stepResult(o, t)>> \o rest.results,
           calls |-> rest.calls + 1]
  ELSE [o |-> o, results |-> <<>>, calls |-> 0]

\* The for loop of runSteps from index i: the optimizer it leaves, the
\* results it pushed, in order, and the number of step() calls it made.
RECURSIVE runStepsLoop(_, _, _, _)
runStepsLoop(o, i, steps, t) ==
  IF i < steps /\ ~o.converged
  THEN LET rest == runStepsLoop(step(o, t), i + 1, steps, t)
       IN [o |-> rest.o,
           results |-> <<stepResult(o, t)>> \o rest.results,
           calls |-> rest.calls + 1]
  ELSE [o |-> o, results |-> <<>>, calls |-> 0]

\* runSteps(steps) at clock reading t.
runSteps(o, steps, t) ==
  LET looped == runStepsLoop(startTiming(o, t), 0, steps, t)
      after == looped.o
  IN [looped EXCEPT !.o = IF after.converged /\ ~Truthy(after.endTime)
                          THEN [after EXCEPT !.endTime = Num(t)]
                          ELSE after]

\* Unrollings of the while loop of runToConvergence the model follows before
\* it reports the loop as still running.
LoopFuel == MaxIters + 2

\* The while loop of runToConvergence: the optimizer it leaves, the number of
\* step() calls made, and whether the loop condition became false.
RECURSIVE runLoop(_, _, _)
runLoop(o, t, fuel) ==
  IF ~(~o.converged /\ o.iteration < o.config.maxIterations)
  THEN [o |-> o, calls |-> 0, exited |-> TRUE]
  ELSE IF fuel = 0
  THEN [o |-> o, calls |-> 0, exited |-> FALSE]
  ELSE LET rest == runLoop(step(o, t), t, fuel - 1)
       IN [rest EXCEPT !.calls = @ + 1]

\* runToConvergence() at clock reading t.
runToConvergence(o, t) ==
  LET looped == runLoop(startTiming(o, t), t, LoopFuel)
      after == looped.o
  IN [looped EXCEPT !.o = IF ~Truthy(after.endTime)
                          THEN [after EXCEPT !.endTime = Num(t)]
                          ELSE after]

\* reset()
reset(o) ==
  [o EXCEPT !.iteration = 0,
            !.converged = FALSE,
            !.history = <<>>,
            !.isRunning = FALSE,
            !.velocity = [x |-> 0, y |-> 0],
            !.startTime = NullV,
            !.endTime = NullV]

\* Variant of getStatistics: null is returned while iteration is 0.
getStatisticsNullAtIterationZero(o) ==
  IF o.iteration = 0
  THEN [isNull |-> TRUE]
  ELSE
    LET initialValue == o.history[1].functionValue
        finalValue == o.history[Len(o.history)].functionValue
        improvement == initialValue - finalValue
    IN [isNull |-> FALSE,
        iterations |-> o.iteration,
        converged |-> o.converged,
        initialValue |-> initialValue,
        finalValue |-> finalValue,
        improvement |-> improvement,
        improvementPercent |-> JTimes(JDiv(improvement, Abs(initialValue)), 100),
        executionTime |->
          IF Truthy(o.endTime) THEN JSub(o.endTime, o.startTime) ELSE NullV,
        averageStepTime |->
          IF Truthy(o.endTime)
          THEN JDiv(ToNumber(JSub(o.endTime, o.startTime)), o.iteration)
          ELSE NullV]

\* getStatistics(): null, or the statistics object.
getStatistics(o) ==
  IF Len(o.history) = 0
  THEN [isNull |-> TRUE]
  ELSE
    LET initialValue == o.history[1].functionValue
        finalValue == o.history[Len(o.history)].functionValue
        improvement == initialValue - finalValue
    IN [isNull |-> FALSE,
        iterations |-> o.iteration,
        converged |-> o.converged,
        initialValue |-> initialValue,
        finalValue |-> finalValue,
        improvement |-> improvement,
        improvementPercent |-> JTimes(JDiv(improvement, Abs(initialValue)), 100),
        executionTime |->
          IF Truthy(o.endTime) THEN JSub(o.endTime, o.startTime) ELSE NullV,
        averageStepTime |->
          IF Truthy(o.endTime)
          THEN JDiv(ToNumber(JSub(o.endTime, o.startTime)), o.iteration)
          ELSE NullV]

\* exportData()
exportData(o) ==
  [config |-> o.config,
   history |-> o.history,
   statistics |-> getStatistics(o),
   functionInfo |-> [name |-> o.func]]

\* The state of the spec's state machine an optimizer is in.
stateOf(o, life) ==
  IF o.converged THEN "Converged"
  ELSE IF o.iteration >= o.config.maxIterations THEN "Exhausted"
  ELSE IF life = "initialized" THEN "Running"
  ELSE "Uninitialized"

\* ------------------------------------- the optimizer on floating point ---
\* The same methods with positions, rates and values as floating-point
\* numbers, on the quadratic bowl.
DecZero == [m |-> 0, e |-> 0]

\* quadraticBowl.value
decValue(x, y) ==
  LET ex == DecSub(x, Dec(1, 0))
      ey == DecSub(y, Dec(1, 0))
  IN DecAdd(DecMul(ex, ex), DecMul(ey, ey))

\* quadraticBowl.gradient
decGradient(x, y) ==
  [dx |-> DecMul(Dec(2, 0), DecSub(x, Dec(1, 0))),
   dy |-> DecMul(Dec(2, 0), DecSub(y, Dec(1, 0)))]

\* mathUtils.vectorMagnitude
decVectorMagnitude(g) == DecSqrt(DecAdd(DecMul(g.dx, g.dx), DecMul(g.dy, g.dy)))

\* new GradientDescentOptimizer(quadraticBowl, c)
decConstruct(c) ==
  [func |-> "quadratic", config |-> c,
   currentPosition |-> [x |-> DecZero, y |-> DecZero],
   velocity |-> [x |-> DecZero, y |-> DecZero], iteration |-> 0,
   converged |-> FALSE, history |-> <<>>, isRunning |-> FALSE,
   startTime |-> NullV, endTime |-> NullV]

\* getCurrentState()
decGetCurrentState(o) ==
  LET x == o.currentPosition.x
      y == o.currentPosition.y
      gradient == decGradient(x, y)
  IN [position |-> [x |-> x, y |-> y],
      functionValue |-> decValue(x, y),
      gradient |-> gradient,
      gradientMagnitude |-> decVectorMagnitude(gradient),
      iteration |-> o.iteration,
      converged |-> o.converged,
      learningRate |-> o.config.learningRate]

\* recordCurrentState() at clock reading t.
decRecordCurrentState(o, t) ==
  [o EXCEPT !.history = Append(@, HistoryRecord(decGetCurrentState(o), t))]

\* initialize(x, y) at clock reading t.
decInitialize(o, x, y, t) ==
  decRecordCurrentState(
    [o EXCEPT !.currentPosition = [x |-> x, y |-> y],
              !.velocity = [x |-> DecZero, y |-> DecZero],
              !.iteration = 0,
              !.converged = FALSE,
              !.history = <<>>,
              !.isRunning = FALSE], t)

\* step(): the convergence test.
decWithinTolerance(o) ==
  DecLess(decVectorMagnitude(decGradient(o.currentPosition.x, o.currentPosition.y)),
          o.config.tolerance)

\* step(): the learning rate of this step.
decCurrentLearningRate(o) ==
  IF o.config.adaptiveLearningRate /\ o.iteration > 0
  THEN DecMul(o.config.learningRate, DecPow(o.config.initialDecay, o.iteration))
  ELSE o.config.learningRate

\* Variant of decUpdatePosition: the step is taken up the gradient.
decUpdatePositionAscent(o) ==
  LET x == o.currentPosition.x
      y == o.currentPosition.y
      gradient == decGradient(x, y)
      lr == decCurrentLearningRate(o)
  IN [o EXCEPT !.currentPosition =
                 [x |-> DecAdd(x, DecMul(lr, gradient.dx)),
                  y |-> DecAdd(y, DecMul(lr, gradient.dy))]]

\* step(): the velocity and position update.
decUpdatePosition(o) ==
  LET x == o.currentPosition.x
      y == o.currentPosition.y
      gradient == decGradient(x, y)
      lr == decCurrentLearningRate(o)
      vx == DecSub(DecMul(o.config.momentum, o.velocity.x), DecMul(lr, gradient.dx))
      vy == DecSub(DecMul(o.config.momentum, o.velocity.y), DecMul(lr, gradient.dy))
  IN IF o.config.momentum.m > 0
     THEN [o EXCEPT !.velocity = [x |-> vx, y |-> vy],
                    !.currentPosition = [x |-> DecAdd(x, vx), y |-> DecAdd(y, vy)]]
     ELSE [o EXCEPT !.currentPosition =
                      [x |-> DecSub(x, DecMul(lr, gradient.dx)),
                       y |-> DecSub(y, DecMul(lr, gradient.dy))]]

\* step() at clock reading t: the optimizer after the call.
decStep(o, t) ==
  IF stepHalted(o) THEN haltedExit(o)
  ELSE IF decWithinTolerance(o) THEN convergedExit(o, t)
  ELSE decRecordCurrentState([decUpdatePosition(o) EXCEPT !.iteration = @ + 1], t)

\* Which of its three exits a step() call on o takes.
decStepExit(o) ==
  IF stepHalted(o) THEN "halted"
  ELSE IF decWithinTolerance(o) THEN "converged"
  ELSE "advanced"

\* The config of the bowl scenario: defaultConfig with learningRate 0.1.
BowlConfig ==
  [learningRate |-> Dec(1, 0 - 1),
   maxIterations |-> 1000,
   tolerance |-> Dec(1, 0 - 6),
   momentum |-> DecZero,
   adaptiveLearningRate |-> FALSE,
   initialDecay |-> Dec(9, 0 - 1)]

\* ------------------------------------ the optimizer on a custom function ---
\* The same methods on a CustomFunction object, with positions, values and
\* gradients as JavaScript numbers that may be NaN.

\* a + b, a - b, a * b and a < b on numbers that may be NaN.
JPlus(a, b) ==
  IF a.kind = "num" /\ b.kind = "num" THEN Num(a.v + b.v) ELSE NaNV

JMinus(a, b) ==
  IF a.kind = "num" /\ b.kind = "num" THEN Num(a.v - b.v) ELSE NaNV

JMul(a, b) ==
  IF a.kind = "num" /\ b.kind = "num" THEN Num(FMul(a.v, b.v)) ELSE NaNV

JLess(a, b) == a.kind = "num" /\ b.kind = "num" /\ a.v < b.v

\* The product of the operands of expression from token i on, at (x, y).
RECURSIVE jsProduct(_, _, _, _)
jsProduct(expression, i, x, y) ==
  IF i > Len(expression) THEN Num(Scale)
  ELSE LET operand == IF expression[i] = "x" THEN x ELSE y
       IN JMul(operand, jsProduct(expression, i + 2, x, y))

\* CustomFunction.value at a position that may be NaN: NaN when valueFunction
\* throws the ReferenceError, the product otherwise.
jsValue(f, x, y) ==
  IF \E i \in 1..Len(f.expression) : f.expression[i] = "z" THEN NaNV
  ELSE jsProduct(f.expression, 1, x, y)

\* CustomFunction.gradient at a position that may be NaN.
jsGradient(f, x, y) ==
  [dx |-> centralDifference(jsValue(f, JPlus(x, Num(1)), y),
                            jsValue(f, JMinus(x, Num(1)), y), 1),
   dy |-> centralDifference(jsValue(f, x, JPlus(y, Num(1))),
                            jsValue(f, x, JMinus(y, Num(1))), 1)]

\* mathUtils.vectorMagnitude
jsVectorMagnitude(g) ==
  IF g.dx.kind = "num" /\ g.dy.kind = "num"
  THEN Num(Sqrt(g.dx.v * g.dx.v + g.dy.v * g.dy.v))
  ELSE NaNV

\* new GradientDescentOptimizer(f, c)
jsConstruct(f, c) ==
  [func |-> f, config |-> c, currentPosition |-> [x |-> Num(0), y |-> Num(0)],
   velocity |-> [x |-> Num(0), y |-> Num(0)], iteration |-> 0,
   converged |-> FALSE, history |-> <<>>, isRunning |-> FALSE,
   startTime |-> NullV, endTime |-> NullV]

\* getCurrentState()
jsGetCurrentState(o) ==
  LET x == o.currentPosition.x
      y == o.currentPosition.y
      gradient == jsGradient(o.func, x, y)
  IN [position |-> [x |-> x, y |-> y],
      functionValue |-> jsValue(o.func, x, y),
      gradient |-> gradient,
      gradientMagnitude |-> jsVectorMagnitude(gradient),
      iteration |-> o.iteration,
      converged |-> o.converged,
      learningRate |-> o.config.learningRate]

\* recordCurrentState() at clock reading t.
jsRecordCurrentState(o, t) ==
  [o EXCEPT !.history = Append(@, HistoryRecord(jsGetCurrentState(o), t))]

\* initialize(x, y) at clock reading t.
jsInitialize(o, x, y, t) ==
  jsRecordCurrentState(
    [o EXCEPT !.currentPosition = [x |-> x, y |-> y],
              !.velocity = [x |-> Num(0), y |-> Num(0)],
              !.iteration = 0,
              !.converged = FALSE,
              !.history = <<>>,
              !.isRunning = FALSE], t)

\* Variant of jsWithinTolerance: the test is !(gradientMagnitude >= tolerance).
jsWithinToleranceNotAtLeast(o) ==
  LET g == jsVectorMagnitude(jsGradient(o.func, o.currentPosition.x,
                                        o.currentPosition.y))
  IN ~(g.kind = "num" /\ g.v >= o.config.tolerance)

\* step(): the convergence test, gradientMagnitude < tolerance.
jsWithinTolerance(o) ==
  JLess(jsVectorMagnitude(jsGradient(o.func, o.currentPosition.x,
                                     o.currentPosition.y)),
        Num(o.config.tolerance))

\* step(): the velocity and position update.
jsUpdatePosition(o) ==
  LET x == o.currentPosition.x
      y == o.currentPosition.y
      gradient == jsGradient(o.func, x, y)
      lr == Num(currentLearningRate(o))
      momentum == Num(o.config.momentum)
      vx == JMinus(JMul(momentum, o.velocity.x), JMul(lr, gradient.dx))
      vy == JMinus(JMul(momentum, o.velocity.y), JMul(lr, gradient.dy))
  IN IF o.config.momentum > 0
     THEN [o EXCEPT !.velocity = [x |-> vx, y |-> vy],
                    !.currentPosition = [x |-> JPlus(x, vx), y |-> JPlus(y, vy)]]
     ELSE [o EXCEPT !.currentPosition =
                      [x |-> JMinus(x, JMul(lr, gradient.dx)),
                       y |-> JMinus(y, JMul(lr, gradient.dy))]]

\* step() at clock reading t: the optimizer after the call.
jsStep(o, t) ==
  IF stepHalted(o) THEN haltedExit(o)
  ELSE IF jsWithinTolerance(o) THEN convergedExit(o, t)
  ELSE jsRecordCurrentState([jsUpdatePosition(o) EXCEPT !.iteration = @ + 1], t)

\* Which of its three exits a step() call on o takes.
jsStepExit(o) ==
  IF stepHalted(o) THEN "halted"
  ELSE IF jsWithinTolerance(o) THEN "converged"
  ELSE "advanced"

\* The while loop of runToConvergence, as runLoop.
RECURSIVE jsRunLoop(_, _, _)
jsRunLoop(o, t, fuel) ==
  IF ~(~o.converged /\ o.iteration < o.config.maxIterations)
  THEN [o |-> o, calls |-> 0, exited |-> TRUE]
  ELSE IF fuel = 0
  THEN [o |-> o, calls |-> 0, exited |-> FALSE]
  ELSE LET rest == jsRunLoop(jsStep(o, t), t, fuel - 1)
       IN [rest EXCEPT !.calls = @ + 1]

\* runToConvergence() at clock reading t.
jsRunToConvergence(o, t) ==
  LET looped == jsRunLoop(startTiming(o, t), t, LoopFuel)
      after == looped.o
  IN [looped EXCEPT !.o = IF ~Truthy(after.endTime)
                          THEN [after EXCEPT !.endTime = Num(t)]
                          ELSE after]

\* --------------------------------------------------------- visualizer ---
\* GradientDescentVisualizer (GradientDescentVisualizer.js).  The visualizer,
\* its optimizer and the browser's pending animation frames are one record w:
\* v is the visualizer object, o its this.optimizer, frames the ids of the
\* callbacks requestAnimationFrame has queued.  calls counts the onConvergence
\* calls since the optimizer was last initialized, up to MaxCalls; paused
\* records that pause() has returned and play() was not called since.
\* Rendering and the DOM are left out.  The optimizer runs on floating-point
\* numbers.

\* defaultConfig of the optimizer module.
defaultConfig ==
  [learningRate |-> Dec(1, 0 - 2),
   maxIterations |-> 1000,
   tolerance |-> Dec(1, 0 - 6),
   momentum |-> DecZero,
   adaptiveLearningRate |-> FALSE,
   initialDecay |-> Dec(9, 0 - 1)]

\* recommendedLearningRate of the quadratic bowl.
recommendedLearningRate(f) == Dec(1, 0 - 1)

\* createOptimizer(func) with the quadratic bowl: the standard preset over
\* defaultConfig.
createOptimizer(f) ==
  decConstruct([defaultConfig EXCEPT !.learningRate = recommendedLearningRate(f),
                                     !.momentum = DecZero,
                                     !.adaptiveLearningRate = FALSE])

\* The defaults of the constructor's options.
defaultOptions ==
  [autoPlay |-> FALSE,
   maxIterations |-> 1000,
   initialFunction |-> "quadratic",
   initialPosition |-> [x |-> Dec(2, 0), y |-> Dec(2, 0)],
   learningRate |-> Dec(1, 0 - 2)]

\* requestAnimationFrame: an id no pending callback has and the visualizer
\* does not hold.  0 stands for null; the ids of the browser are positive.
requestAnimationFrame(w) ==
  CHOOSE id \in 1..(Cardinality(w.frames) + 2) :
    /\ id \notin w.frames \cup {w.v.animationId}
    /\ \A other \in 1..(id - 1) : other \in w.frames \cup {w.v.animationId}

\* The one element of a one-element set.  Only({F(x) : x \in {e}}) is F(e)
\* with e evaluated once.
Only(S) == CHOOSE r \in S : TRUE

\* pause()
pause(w) ==
  [w EXCEPT !.v.isPlaying = FALSE,
            !.v.animationId = 0,
            !.frames = @ \ {w.v.animationId},
            !.paused = TRUE]

\* step() of the visualizer at clock reading t, with an onConvergence
\* callback registered.
visualizerStep(w, t) ==
  Only({ IF stepped.o.converged
         THEN [pause(stepped) EXCEPT
                 !.calls = IF @ < MaxCalls THEN @ + 1 ELSE @]
         ELSE stepped
         : stepped \in {[w EXCEPT !.o = decStep(w.o, t)]} })

\* Variant of animate: no test of isPlaying on entry.
animateWhateverIsPlaying(w, due, t) ==
  Only({ Only({ [stepped EXCEPT !.v.animationId = id, !.frames = @ \cup {id}]
                : id \in {requestAnimationFrame(stepped)} })
         : stepped \in {IF due THEN visualizerStep(w, t) ELSE w} })

\* animate() at clock reading t; due: currentTime - lastStepTime has reached
\* stepInterval.
animate(w, due, t) ==
  IF ~w.v.isPlaying THEN w
  ELSE Only({ Only({ [stepped EXCEPT !.v.animationId = id,
                                     !.frames = @ \cup {id}]
                     : id \in {requestAnimationFrame(stepped)} })
              : stepped \in {IF due THEN visualizerStep(w, t) ELSE w} })

\* play(): lastStepTime is read off the clock just before animate() reads
\* the clock again, so no step is due in this call of animate().
play(w, t) ==
  IF w.v.isPlaying THEN w
  ELSE animate([w EXCEPT !.v.isPlaying = TRUE, !.paused = FALSE], FALSE, t)

\* setFunction(func): a new optimizer, initialized at the start position of
\* the options.
setFunction(w, f, t) ==
  [w EXCEPT !.o = decInitialize(createOptimizer(f),
                                w.v.options.initialPosition.x,
                                w.v.options.initialPosition.y, t),
            !.calls = 0]

\* setLearningRate(rate)
setLearningRate(w, rate) ==
  [w EXCEPT !.v.options.learningRate = rate,
            !.o.config.learningRate = rate]

\* setStartPosition(x, y)
setStartPosition(w, x, y, t) ==
  [w EXCEPT !.v.options.initialPosition = [x |-> x, y |-> y],
            !.o = decInitialize(w.o, x, y, t),
            !.calls = 0]

\* reset() of the visualizer
visualizerReset(w, t) ==
  LET p == pause(w)
  IN [p EXCEPT !.o = decInitialize(p.o, p.v.options.initialPosition.x,
                                   p.v.options.initialPosition.y, t),
               !.calls = 0]

\* new GradientDescentVisualizer(container, options): the constructor's
\* assignments, then initialize(): setupInitialFunction and, with autoPlay,
\* play().
newVisualizer(options, t) ==
  LET built == [v |-> [options |-> options, isPlaying |-> FALSE, animationId |-> 0],
                o |-> NullV,
                frames |-> {},
                calls |-> 0,
                paused |-> FALSE]
  IN Only({ IF options.autoPlay THEN play(ready, t) ELSE ready
            : ready \in {setFunction(built, options.initialFunction, t)} })

\* ------------------------------------------------------------ actions ---
Init ==
  /\ \E f \in Funcs, c \in Configs :
       LET o == construct(f, c)
       IN /\ func = o.func
          /\ config = o.config
          /\ currentPosition = o.currentPosition
          /\ velocity = o.velocity
          /\ iteration = o.iteration
          /\ converged = o.converged
          /\ history = o.history
          /\ isRunning = o.isRunning
          /\ startTime = o.startTime
          /\ endTime = o.endTime
  /\ now = 1
  /\ lifecycle = "new"
  /\ resets = 0
  /\ terminalReached = FALSE
  /\ runStart = NullV
  /\ terminalAt = NullV
  /\ peer = NoPeer
  /\ configShared = FALSE
  /\ custom = NoCustom
  /\ visualizer = NoVisualizer
  /\ frames = {}
  /\ onConvergenceCalls = 0
  /\ paused = FALSE
  /\ bundle = NoBundle
  /\ bundleHistoryLive = FALSE
  /\ ret = [op |-> "new", arg |-> <<>>, val |-> <<>>]

\* A step/runSteps/runToConvergence call that leaves the optimizer as o is
\* noted: the first call of the run, and the call that ends it.
NoteCall(o) ==
  /\ runStart' = IF runStart = NullV THEN Num(now) ELSE runStart
  /\ terminalAt' = IF terminalAt = NullV /\ stepHalted(o) THEN Num(now)
                   ELSE terminalAt

\* push() on this.history shows in the history of an exported bundle while
\* the two are one array.
BundleFollows ==
  /\ bundle' = IF bundleHistoryLive THEN [bundle EXCEPT !.history = history']
               ELSE bundle
  /\ UNCHANGED bundleHistoryLive

\* this.history = []: an exported bundle keeps the array it was given.
BundleDetached ==
  /\ bundleHistoryLive' = FALSE
  /\ UNCHANGED bundle

\* The caller calls initialize(x, y).
Initialize ==
  \E p \in StartPoints :
    LET o == initialize(Self, p[1], p[2], now)
    IN /\ Install(o)
       /\ lifecycle' = "initialized"
       /\ resets' = 0
       /\ terminalReached' = stepHalted(o)
       /\ runStart' = NullV
       /\ terminalAt' = NullV
       /\ ret' = [op |-> "initialize", arg |-> p, val |-> <<>>,
                  from |-> stateOf(Self, lifecycle), prior |-> lifecycle,
                  timed |-> Truthy(startTime) /\ Truthy(endTime)]
       /\ BundleDetached
       /\ UNCHANGED <<now, peer, configShared, custom, visualizerVars>>

\* The caller calls step().
Step ==
  LET o == step(Self, now)
  IN /\ Install(o)
     /\ terminalReached' = (terminalReached \/ stepHalted(o))
     /\ NoteCall(o)
     /\ ret' = [op |-> "step", arg |-> <<>>, val |-> stepResult(Self, now),
                exit |-> stepExit(Self)]
     /\ BundleFollows
     /\ UNCHANGED <<now, lifecycle, resets, peer, configShared, custom,
                    visualizerVars>>

\* The caller calls runSteps(n).
RunSteps ==
  \E n \in 0..MaxSteps :
    LET r == runSteps(Self, n, now)
    IN /\ Install(r.o)
       /\ terminalReached' = (terminalReached \/ stepHalted(r.o))
       /\ NoteCall(r.o)
       /\ ret' = [op |-> "runSteps", arg |-> <<n>>, val |-> r.results,
                  calls |-> r.calls]
       /\ BundleFollows
       /\ UNCHANGED <<now, lifecycle, resets, peer, configShared, custom,
                      visualizerVars>>

\* The caller calls runToConvergence(); the array returned is this.history.
RunToConvergence ==
  LET r == runToConvergence(Self, now)
  IN /\ Install(r.o)
     /\ terminalReached' = (terminalReached \/ stepHalted(r.o))
     /\ NoteCall(r.o)
     /\ ret' = [op |-> "runToConvergence", arg |-> <<>>, val |-> r.o.history,
                calls |-> r.calls, exited |-> r.exited]
     /\ BundleFollows
     /\ UNCHANGED <<now, lifecycle, resets, peer, configShared, custom,
                    visualizerVars>>

\* The caller calls reset(); at most MaxResets times between two initialize.
Reset ==
  /\ resets < MaxResets
  /\ resets' = resets + 1
  /\ Install(reset(Self))
  /\ lifecycle' = IF lifecycle = "new" THEN "new" ELSE "reset"
  /\ ret' = [op |-> "reset", arg |-> <<>>, val |-> <<>>]
  /\ BundleDetached
  /\ UNCHANGED <<now, terminalReached, runStart, terminalAt, peer,
                 configShared, custom, visualizerVars>>

\* The caller calls getCurrentState().
GetCurrentState ==
  /\ ret' = [op |-> "getCurrentState", arg |-> <<>>, val |-> getCurrentState(Self)]
  /\ UNCHANGED <<optimizerVars, now, lifecycle, resets, terminalReached,
                 runStart, terminalAt, peer, configShared, custom,
                 visualizerVars, bundleVars>>

\* The caller calls getStatistics().
GetStatistics ==
  /\ ret' = [op |-> "getStatistics", arg |-> <<>>, val |-> getStatistics(Self)]
  /\ UNCHANGED <<optimizerVars, now, lifecycle, resets, terminalReached,
                 runStart, terminalAt, peer, configShared, custom,
                 visualizerVars, bundleVars>>

\* The caller calls exportData().
ExportData ==
  /\ ret' = [op |-> "exportData", arg |-> <<>>, val |-> exportData(Self)]
  /\ UNCHANGED <<optimizerVars, now, lifecycle, resets, terminalReached,
                 runStart, terminalAt, peer, configShared, custom,
                 visualizerVars, bundleVars>>

\* The caller calls exportData() and keeps the bundle.
KeepExportData ==
  /\ bundle' = exportData(Self)
  /\ bundleHistoryLive' = TRUE
  /\ ret' = [op |-> "exportData", arg |-> <<>>, val |-> exportData(Self)]
  /\ UNCHANGED <<optimizerVars, now, lifecycle, resets, terminalReached,
                 runStart, terminalAt, peer, configShared, custom,
                 visualizerVars>>

\* The caller assigns optimizer.config.learningRate between calls.
SetLearningRate ==
  \E r \in LearningRates :
    /\ r # config.learningRate
    /\ config' = [config EXCEPT !.learningRate = r]
    /\ peer' = IF configShared THEN [peer EXCEPT !.config.learningRate = r]
               ELSE peer
    /\ ret' = [op |-> "setLearningRate", arg |-> <<r>>, val |-> <<>>]
    /\ UNCHANGED <<func, currentPosition, velocity, iteration, converged,
                   history, isRunning, startTime, endTime, now, lifecycle,
                   resets, terminalReached, runStart, terminalAt, configShared, custom,
                   visualizerVars, bundleVars>>

\* Wall-clock time passes between two calls.
Tick ==
  /\ now < MaxTime
  /\ now' = now + 1
  /\ UNCHANGED <<optimizerVars, lifecycle, resets, terminalReached, runStart,
                 terminalAt, peer, configShared, custom, ret,
                 visualizerVars, bundleVars>>

\* The caller calls initialize(x, y) on the second optimizer.
PeerInitialize ==
  \E p \in StartPoints :
    /\ peer' = initialize(peer, p[1], p[2], now)
    /\ ret' = [op |-> "peer.initialize", arg |-> p, val |-> <<>>]
    /\ UNCHANGED <<optimizerVars, now, lifecycle, resets, terminalReached,
                   runStart, terminalAt, configShared, custom,
                   visualizerVars, bundleVars>>

\* The caller calls step() on the second optimizer.
PeerStep ==
  /\ peer' = step(peer, now)
  /\ ret' = [op |-> "peer.step", arg |-> <<>>, val |-> stepResult(peer, now)]
  /\ UNCHANGED <<optimizerVars, now, lifecycle, resets, terminalReached,
                 runStart, terminalAt, configShared, custom,
                 visualizerVars, bundleVars>>

\* The caller assigns config.learningRate of the second optimizer.
PeerSetLearningRate ==
  \E r \in LearningRates :
    /\ r # peer.config.learningRate
    /\ peer' = [peer EXCEPT !.config.learningRate = r]
    /\ config' = IF configShared THEN [config EXCEPT !.learningRate = r]
                 ELSE config
    /\ ret' = [op |-> "peer.setLearningRate", arg |-> <<r>>, val |-> <<>>]
    /\ UNCHANGED <<func, currentPosition, velocity, iteration, converged,
                   history, isRunning, startTime, endTime, now, lifecycle,
                   resets, terminalReached, runStart, terminalAt, configShared, custom,
                   visualizerVars, bundleVars>>

\* The expressions handed to the constructor: handleCustomFunction passes on
\* what the user typed unless it is empty.
Expressions == SeqsUpTo(Tokens, MaxTokens) \ {<<>>}

\* The caller constructs a CustomFunction; when the constructor throws, the
\* caller keeps the function it had.
NewCustomFunction ==
  \E expression \in Expressions :
    LET r == newCustomFunction(expression)
    IN /\ custom' = IF r.threw THEN custom ELSE r.object
       /\ ret' = [op |-> "new CustomFunction", arg |-> expression, val |-> r]
       /\ UNCHANGED <<optimizerVars, now, lifecycle, resets, terminalReached,
                      runStart, terminalAt, peer, configShared,
                      visualizerVars, bundleVars>>

\* The caller calls value(x, y) of the custom function.
CustomValue ==
  /\ custom # NoCustom
  /\ \E p \in StartPoints :
       ret' = [op |-> "custom.value", arg |-> p,
               val |-> customValue(custom, p[1], p[2]),
               threw |-> valueFunction(custom.expression, p[1], p[2]).threw]
  /\ UNCHANGED <<optimizerVars, now, lifecycle, resets, terminalReached,
                 runStart, terminalAt, peer, configShared, custom,
                 visualizerVars, bundleVars>>

\* The caller calls gradient(x, y) of the custom function.
CustomGradient ==
  /\ custom # NoCustom
  /\ \E p \in StartPoints :
       ret' = [op |-> "custom.gradient", arg |-> p,
               val |-> customGradient(custom, p[1], p[2]),
               threw |-> valueFunction(custom.expression, p[1], p[2]).threw]
  /\ UNCHANGED <<optimizerVars, now, lifecycle, resets, terminalReached,
                 runStart, terminalAt, peer, configShared, custom,
                 visualizerVars, bundleVars>>

Next ==
  \/ Initialize
  \/ Step
  \/ RunSteps
  \/ RunToConvergence
  \/ Reset
  \/ GetCurrentState
  \/ GetStatistics
  \/ ExportData
  \/ SetLearningRate

\* Every call of the caller is made within one reading of the clock.
Spec == Init /\ [][Next]_vars

NextTimed ==
  \/ Initialize
  \/ Step
  \/ RunSteps
  \/ RunToConvergence
  \/ Reset
  \/ Tick

\* The clock advances between calls.
SpecTimed == Init /\ [][NextTimed]_vars

NextExport ==
  \/ Initialize
  \/ Step
  \/ RunSteps
  \/ RunToConvergence
  \/ Reset
  \/ KeepExportData

\* The caller keeps the bundle exportData() returned and goes on.
SpecExport == Init /\ [][NextExport]_vars

\* Two optimizers built from the same function object and the same config
\* object c: new GradientDescentOptimizer(f, c), twice.
InitTwo ==
  /\ \E f \in Funcs, c \in Configs :
       LET o == construct(f, c)
       IN /\ func = o.func
          /\ config = o.config
          /\ currentPosition = o.currentPosition
          /\ velocity = o.velocity
          /\ iteration = o.iteration
          /\ converged = o.converged
          /\ history = o.history
          /\ isRunning = o.isRunning
          /\ startTime = o.startTime
          /\ endTime = o.endTime
          /\ peer = construct(f, c)
  /\ configShared = ~constructorCopiesConfig
  /\ custom = NoCustom
  /\ visualizer = NoVisualizer
  /\ frames = {}
  /\ onConvergenceCalls = 0
  /\ paused = FALSE
  /\ bundle = NoBundle
  /\ bundleHistoryLive = FALSE
  /\ now = 1
  /\ lifecycle = "new"
  /\ resets = 0
  /\ terminalReached = FALSE
  /\ runStart = NullV
  /\ terminalAt = NullV
  /\ ret = [op |-> "new", arg |-> <<>>, val |-> <<>>]

NextTwo ==
  \/ Initialize
  \/ Step
  \/ SetLearningRate
  \/ PeerInitialize
  \/ PeerStep
  \/ PeerSetLearningRate

\* The caller works with two optimizers.
SpecTwo == InitTwo /\ [][NextTwo]_vars

\* The configs of the optimizers built on the built-in functions: as
\* Configs, and with the smallest positive tolerance as well.
BuiltInConfigs ==
  [learningRate : LearningRates,
   maxIterations : 1..MaxIters,
   tolerance : {1, Tolerance},
   momentum : Momenta,
   adaptiveLearningRate : BOOLEAN,
   initialDecay : {Half}]

\* An optimizer is constructed on one of the built-in functions.
InitBuiltIn ==
  /\ \E f \in BuiltInFuncs, c \in BuiltInConfigs :
       LET o == construct(f, c)
       IN /\ func = o.func
          /\ config = o.config
          /\ currentPosition = o.currentPosition
          /\ velocity = o.velocity
          /\ iteration = o.iteration
          /\ converged = o.converged
          /\ history = o.history
          /\ isRunning = o.isRunning
          /\ startTime = o.startTime
          /\ endTime = o.endTime
  /\ now = 1
  /\ lifecycle = "new"
  /\ resets = 0
  /\ terminalReached = FALSE
  /\ runStart = NullV
  /\ terminalAt = NullV
  /\ peer = NoPeer
  /\ configShared = FALSE
  /\ custom = NoCustom
  /\ visualizer = NoVisualizer
  /\ frames = {}
  /\ onConvergenceCalls = 0
  /\ paused = FALSE
  /\ bundle = NoBundle
  /\ bundleHistoryLive = FALSE
  /\ ret = [op |-> "new", arg |-> <<>>, val |-> <<>>]

\* The caller calls initialize at the minimum the function declares.
InitializeAtMinimum ==
  LET m == globalMinimum(func)
      o == initialize(Self, m.x, m.y, now)
  IN /\ Install(o)
     /\ lifecycle' = "initialized"
     /\ resets' = 0
     /\ terminalReached' = stepHalted(o)
     /\ runStart' = NullV
     /\ terminalAt' = NullV
     /\ ret' = [op |-> "initialize", arg |-> <<m.x, m.y>>, val |-> <<>>,
                from |-> stateOf(Self, lifecycle), prior |-> lifecycle,
                timed |-> Truthy(startTime) /\ Truthy(endTime)]
     /\ BundleDetached
     /\ UNCHANGED <<now, peer, configShared, custom, visualizerVars>>

\* The caller calls step() on an optimizer it has initialized.
StepInitialized == lifecycle # "new" /\ Step

NextBuiltIn ==
  \/ InitializeAtMinimum
  \/ StepInitialized
  \/ Reset
  \/ GetCurrentState
  \/ GetStatistics

\* The caller starts the optimizer at the declared minimum of its function.
SpecBuiltIn == InitBuiltIn /\ [][NextBuiltIn]_vars

\* The optimizer of the bowl scenario is constructed.
InitBowl ==
  /\ LET o == decConstruct(BowlConfig)
     IN /\ func = o.func
        /\ config = o.config
        /\ currentPosition = o.currentPosition
        /\ velocity = o.velocity
        /\ iteration = o.iteration
        /\ converged = o.converged
        /\ history = o.history
        /\ isRunning = o.isRunning
        /\ startTime = o.startTime
        /\ endTime = o.endTime
  /\ now = 1
  /\ lifecycle = "new"
  /\ resets = 0
  /\ terminalReached = FALSE
  /\ runStart = NullV
  /\ terminalAt = NullV
  /\ peer = NoPeer
  /\ configShared = FALSE
  /\ custom = NoCustom
  /\ visualizer = NoVisualizer
  /\ frames = {}
  /\ onConvergenceCalls = 0
  /\ paused = FALSE
  /\ bundle = NoBundle
  /\ bundleHistoryLive = FALSE
  /\ ret = [op |-> "new", arg |-> <<>>, val |-> <<>>]

\* The scenario starts: initialize(2, 2).
BowlInitialize ==
  /\ lifecycle = "new"
  /\ Install(decInitialize(Self, Dec(2, 0), Dec(2, 0), now))
  /\ lifecycle' = "initialized"
  /\ ret' = [op |-> "initialize", arg |-> <<2, 2>>, val |-> <<>>]
  /\ UNCHANGED <<now, resets, terminalReached, runStart, terminalAt, peer,
                 configShared, custom, visualizerVars, bundleVars>>

\* The scenario goes on: step().
BowlStep ==
  /\ lifecycle = "initialized"
  /\ Install(decStep(Self, now))
  /\ ret' = [op |-> "step", arg |-> <<>>,
             val |-> decGetCurrentState(decStep(Self, now)),
             exit |-> decStepExit(Self)]
  /\ UNCHANGED <<now, lifecycle, resets, terminalReached, runStart, terminalAt,
                 peer, configShared, custom, visualizerVars, bundleVars>>

\* The scenario is observed: getCurrentState().
BowlGetCurrentState ==
  /\ lifecycle = "initialized"
  /\ ret' = [op |-> "getCurrentState", arg |-> <<>>,
             val |-> decGetCurrentState(Self)]
  /\ UNCHANGED <<optimizerVars, now, lifecycle, resets, terminalReached,
                 runStart, terminalAt, peer, configShared, custom,
                 visualizerVars, bundleVars>>

NextBowl ==
  \/ BowlInitialize
  \/ BowlStep
  \/ BowlGetCurrentState

\* The bowl scenario.
SpecBowl == InitBowl /\ [][NextBowl]_vars

NextCustom ==
  \/ NewCustomFunction
  \/ CustomValue
  \/ CustomGradient

\* The optimizer plays no part here: one configuration of it is enough.
InitCustom ==
  /\ Init
  /\ config.learningRate = Quarter
  /\ config.maxIterations = 1
  /\ config.momentum = 0
  /\ ~config.adaptiveLearningRate

\* The caller constructs custom functions and evaluates them.
SpecCustom == InitCustom /\ [][NextCustom]_vars

\* The expressions the constructor of CustomFunction accepts.
AcceptedExpressions == {expression \in Expressions : parses(expression)}

\* Start positions of the optimizer on a custom function: those of
\* StartPoints, and (NaN, NaN), which parseFloat of an empty input field gives.
JsStartPoints ==
  {<<Num(Scale), Num(Scale)>>, <<Num(Scale + Half), Num(Scale + Half)>>,
   <<NaNV, NaNV>>}

\* An optimizer is constructed on a CustomFunction object.
InitOnCustom ==
  /\ \E expression \in AcceptedExpressions, c \in Configs :
       LET o == jsConstruct(newCustomFunction(expression).object, c)
       IN /\ func = o.func
          /\ config = o.config
          /\ currentPosition = o.currentPosition
          /\ velocity = o.velocity
          /\ iteration = o.iteration
          /\ converged = o.converged
          /\ history = o.history
          /\ isRunning = o.isRunning
          /\ startTime = o.startTime
          /\ endTime = o.endTime
          /\ custom = o.func
  /\ now = 1
  /\ lifecycle = "new"
  /\ resets = 0
  /\ terminalReached = FALSE
  /\ runStart = NullV
  /\ terminalAt = NullV
  /\ peer = NoPeer
  /\ configShared = FALSE
  /\ visualizer = NoVisualizer
  /\ frames = {}
  /\ onConvergenceCalls = 0
  /\ paused = FALSE
  /\ bundle = NoBundle
  /\ bundleHistoryLive = FALSE
  /\ ret = [op |-> "new", arg |-> <<>>, val |-> <<>>]

\* What a call on the optimizer on a custom function leaves alone.
OnCustomFrame ==
  UNCHANGED <<now, resets, terminalReached, runStart, terminalAt, peer,
              configShared, custom, visualizerVars, bundleVars>>

\* The caller calls initialize(x, y).
OnCustomInitialize ==
  /\ \E p \in JsStartPoints :
       /\ Install(jsInitialize(Self, p[1], p[2], now))
       /\ ret' = [op |-> "initialize", arg |-> p, val |-> <<>>]
  /\ lifecycle' = "initialized"
  /\ OnCustomFrame

\* The caller calls step().
OnCustomStep ==
  /\ Install(jsStep(Self, now))
  /\ ret' = [op |-> "step", arg |-> <<>>,
             val |-> jsGetCurrentState(jsStep(Self, now)),
             exit |-> jsStepExit(Self)]
  /\ UNCHANGED lifecycle
  /\ OnCustomFrame

\* The caller calls runToConvergence().
OnCustomRunToConvergence ==
  /\ LET r == jsRunToConvergence(Self, now)
     IN /\ Install(r.o)
        /\ ret' = [op |-> "runToConvergence", arg |-> <<>>, val |-> r.o.history,
                   calls |-> r.calls, exited |-> r.exited]
  /\ UNCHANGED lifecycle
  /\ OnCustomFrame

\* The caller calls getCurrentState().
OnCustomGetCurrentState ==
  /\ ret' = [op |-> "getCurrentState", arg |-> <<>>,
             val |-> jsGetCurrentState(Self)]
  /\ UNCHANGED <<optimizerVars, lifecycle>>
  /\ OnCustomFrame

NextOnCustom ==
  \/ OnCustomInitialize
  \/ OnCustomStep
  \/ OnCustomRunToConvergence
  \/ OnCustomGetCurrentState

\* A caller drives an optimizer whose objective is a CustomFunction.
SpecOnCustom == InitOnCustom /\ [][NextOnCustom]_vars

\* The visualizer, its optimizer and the pending frames as one record.
World ==
  [v |-> visualizer, o |-> Self, frames |-> frames,
   calls |-> onConvergenceCalls, paused |-> paused]

\* The visualizer, its optimizer and the pending frames become w.
InstallWorld(world) ==
  \E w \in {world} :
    /\ Install(w.o)
    /\ visualizer' = w.v
    /\ frames' = w.frames
    /\ onConvergenceCalls' = w.calls
    /\ paused' = w.paused

\* Start positions of the visualizer: the minimum, and a point next to it
\* (1.0000007, 1) from where the recommended learning rate needs two steps.
VisualizerStartPoints ==
  {[x |-> Dec(1, 0), y |-> Dec(1, 0)],
   [x |-> Dec(10000007, 0 - 7), y |-> Dec(1, 0)]}

\* The options objects a visualizer is constructed with: a small
\* maxIterations, and the default learningRate.
VisualizerOptions ==
  [autoPlay : BOOLEAN,
   maxIterations : {1},
   initialFunction : {"quadratic"},
   initialPosition : VisualizerStartPoints,
   learningRate : {defaultOptions.learningRate}]

\* The rate handed to setLearningRate: 0.5, the upper end of the slider.
VisualizerRates == {Dec(5, 0 - 1)}

\* A visualizer is constructed.  Its optimizer reads the clock at 1.
InitVisualizer ==
  /\ \E options \in VisualizerOptions :
       \E w \in {newVisualizer(options, 1)} :
          /\ func = w.o.func
          /\ config = w.o.config
          /\ currentPosition = w.o.currentPosition
          /\ velocity = w.o.velocity
          /\ iteration = w.o.iteration
          /\ converged = w.o.converged
          /\ history = w.o.history
          /\ isRunning = w.o.isRunning
          /\ startTime = w.o.startTime
          /\ endTime = w.o.endTime
          /\ visualizer = w.v
          /\ frames = w.frames
          /\ onConvergenceCalls = w.calls
          /\ paused = w.paused
          /\ ret = [op |-> "new", arg |-> <<options>>, val |-> <<>>]
  /\ now = 1
  /\ lifecycle = "initialized"
  /\ resets = 0
  /\ terminalReached = FALSE
  /\ runStart = NullV
  /\ terminalAt = NullV
  /\ peer = NoPeer
  /\ configShared = FALSE
  /\ custom = NoCustom
  /\ bundle = NoBundle
  /\ bundleHistoryLive = FALSE

\* What no call on the visualizer changes.
VisualizerFrame ==
  UNCHANGED <<now, lifecycle, resets, terminalReached, runStart, terminalAt,
              peer, configShared, custom, bundleVars>>

\* The user calls play(), while fewer than MaxFrames callbacks are pending.
Play ==
  /\ Cardinality(frames) < MaxFrames
  /\ InstallWorld(play(World, now))
  /\ ret' = [op |-> "play", arg |-> <<>>, val |-> <<>>, stepped |-> FALSE]
  /\ VisualizerFrame

\* The user calls pause().
Pause ==
  /\ InstallWorld(pause(World))
  /\ ret' = [op |-> "pause", arg |-> <<>>, val |-> <<>>, stepped |-> FALSE]
  /\ VisualizerFrame

\* The user calls step() of the visualizer.
VisualizerStep ==
  /\ InstallWorld(visualizerStep(World, now))
  /\ ret' = [op |-> "visualizer.step", arg |-> <<>>,
             val |-> decStepExit(Self), stepped |-> TRUE]
  /\ VisualizerFrame

\* The user calls reset() of the visualizer.
VisualizerReset ==
  /\ InstallWorld(visualizerReset(World, now))
  /\ ret' = [op |-> "visualizer.reset", arg |-> <<>>, val |-> <<>>,
             stepped |-> FALSE]
  /\ VisualizerFrame

\* The user calls setFunction(func).
SetFunction ==
  /\ \E f \in Funcs :
       /\ InstallWorld(setFunction(World, f, now))
       /\ ret' = [op |-> "setFunction", arg |-> <<f>>, val |-> <<>>,
                  stepped |-> FALSE]
  /\ VisualizerFrame

\* The user calls setStartPosition(x, y).
SetStartPosition ==
  /\ \E p \in VisualizerStartPoints :
       /\ InstallWorld(setStartPosition(World, p.x, p.y, now))
       /\ ret' = [op |-> "setStartPosition", arg |-> <<p>>, val |-> <<>>,
                  stepped |-> FALSE]
  /\ VisualizerFrame

\* The user calls setLearningRate(rate) of the visualizer.
VisualizerSetLearningRate ==
  /\ \E rate \in VisualizerRates :
       /\ rate # visualizer.options.learningRate
       /\ InstallWorld(setLearningRate(World, rate))
       /\ ret' = [op |-> "visualizer.setLearningRate", arg |-> <<rate>>,
                  val |-> <<>>, stepped |-> FALSE]
  /\ VisualizerFrame

\* The browser runs one of the pending animation-frame callbacks, each of
\* which is () => this.animate(), with a step due or not.
RunFrame(due) ==
  /\ \E id \in frames :
       /\ InstallWorld(animate([World EXCEPT !.frames = @ \ {id}], due, now))
       /\ ret' = [op |-> "frame", arg |-> <<id>>, val |-> <<>>,
                  stepped |-> due /\ visualizer.isPlaying,
                  paused |-> paused]
  /\ VisualizerFrame

\* A callback is run; whether a step is due is the clock's choice.
AnimationFrame == \E due \in BOOLEAN : RunFrame(due)

\* A callback is run when stepInterval has passed since the last step.
DueFrame == RunFrame(TRUE)

\* The caller assigns optimizer.config.maxIterations of the visualizer's
\* optimizer, which is a public field of a public field.
SetMaxIterations ==
  /\ \E n \in 1..MaxIters :
       /\ n # config.maxIterations
       /\ config' = [config EXCEPT !.maxIterations = n]
       /\ ret' = [op |-> "setMaxIterations", arg |-> <<n>>, val |-> <<>>,
                  stepped |-> FALSE]
  /\ UNCHANGED <<func, currentPosition, velocity, iteration, converged,
                 history, isRunning, startTime, endTime, visualizerVars>>
  /\ VisualizerFrame

NextVisualizer ==
  \/ Play
  \/ Pause
  \/ VisualizerStep
  \/ VisualizerReset
  \/ SetFunction
  \/ SetStartPosition
  \/ VisualizerSetLearningRate
  \/ AnimationFrame

\* A user and the browser drive a visualizer.
SpecVisualizer == InitVisualizer /\ [][NextVisualizer]_vars

\* A visualizer constructed with autoPlay.
InitPlayback == InitVisualizer /\ visualizer.options.autoPlay

NextPlayback ==
  \/ AnimationFrame
  \/ SetMaxIterations
  \/ SetStartPosition
  \/ VisualizerSetLearningRate

\* The visualizer plays on its own; the user changes settings and does not
\* touch play, pause, step or reset.  The browser keeps running the pending
\* callbacks (weak fairness of AnimationFrame), and time passes: as long as
\* callbacks are pending, one is run with a step due, again and again (weak
\* fairness of DueFrame, which is enabled exactly when frames is not empty).
SpecPlayback ==
  /\ InitPlayback /\ [][NextPlayback]_vars
  /\ WF_vars(AnimationFrame)
  /\ ([]<>(frames = {}) \/ []<><<DueFrame>>_vars)

\* ------------------------------------------------------------- claims ---
\* The optimizer is Converged or Exhausted.
Terminal == converged \/ iteration >= config.maxIterations

\* The gradient magnitude of the quadratic bowl at the current position is
\* below tolerance, computed from the position without the optimizer's code.
GradientBelowTolerance ==
  LET dx == 2 * (currentPosition.x - Scale)
      dy == 2 * (currentPosition.y - Scale)
  IN dx * dx + dy * dy < config.tolerance * config.tolerance

\* The snapshot a caller reads off the optimizer's fields.
Snapshot == getCurrentState(Self)

\* The optimizer object, and the snapshot read off it, after this step.
SelfAfter ==
  [func |-> func', config |-> config', currentPosition |-> currentPosition',
   velocity |-> velocity', iteration |-> iteration', converged |-> converged',
   history |-> history', isRunning |-> isRunning', startTime |-> startTime',
   endTime |-> endTime']

SnapshotAfter == getCurrentState(SelfAfter)

\* This step of the behaviour is a call of operation op: the caller's record
\* of its last call names it, and the clock did not move.
Called(op) == ret'.op = op /\ now' = now

\* This step is a call of step(), runSteps or runToConvergence.
Stepping == Called("step") \/ Called("runSteps") \/ Called("runToConvergence")

\* C1: a step() call on a converged optimizer, or on one whose iteration has
\* reached maxIterations, changes none of position, velocity, iteration,
\* converged and history, and returns the snapshot of that unchanged state.
C1_TerminalStepIsNoOp ==
  [][(Called("step") /\ Terminal) =>
       /\ UNCHANGED <<currentPosition, velocity, iteration, converged, history>>
       /\ ret'.val = Snapshot
       /\ ret'.val.position = currentPosition
       /\ ret'.val.iteration = iteration
       /\ ret'.val.converged = converged]_vars

\* C1 happens: after initialize, a step() call took the early return on an
\* optimizer that had made at least one accepted step.
C1_Witness ==
  /\ lifecycle = "initialized"
  /\ ret.op = "step"
  /\ ret.exit = "halted"
  /\ iteration >= 1

\* C2: a step() call on a non-terminal optimizer whose gradient magnitude is
\* below tolerance sets converged and changes none of position, velocity,
\* iteration and history; so the first step() from a starting point within
\* tolerance converges at iteration 0 with the position initialize gave.
C2_ConvergenceCheckFirst ==
  [][(Called("step") /\ ~Terminal /\ GradientBelowTolerance) =>
       /\ converged'
       /\ UNCHANGED <<currentPosition, velocity, iteration, history>>
       /\ ret'.val.converged
       /\ ret'.val.position = currentPosition]_vars

\* C2 happens: the first step() after initialize found the starting point
\* within tolerance.
C2_Witness ==
  /\ lifecycle = "initialized"
  /\ ret.op = "step"
  /\ ret.exit = "converged"
  /\ converged
  /\ iteration = 0
  /\ Len(history) = 1
  /\ currentPosition = history[1].position

\* C3: iteration never exceeds maxIterations, and once iteration equals
\* maxIterations every step(), runSteps(n) and runToConvergence() call leaves
\* position, velocity, iteration, converged and history as they are and a
\* caller reads the identical snapshot; every result step() and runSteps
\* return is that snapshot.
C3_MaxIterationsIsCeiling ==
  [][/\ iteration' <= config'.maxIterations
     /\ (iteration = config.maxIterations /\ Stepping) =>
          /\ UNCHANGED <<currentPosition, velocity, iteration, converged, history>>
          /\ SnapshotAfter = Snapshot
          /\ Called("step") => ret'.val = Snapshot
          /\ Called("runSteps") =>
               \A i \in 1..Len(ret'.val) : ret'.val[i] = Snapshot
          /\ Called("runToConvergence") => ret'.val = history]_vars

\* C3 happens: a step() call was refused on an optimizer that ran out of
\* iterations without converging.
C3_Witness ==
  /\ lifecycle = "initialized"
  /\ ret.op = "step"
  /\ ret.exit = "halted"
  /\ ~converged
  /\ iteration = config.maxIterations
  /\ Len(history) = config.maxIterations + 1

\* C4 (as claimed): once initialize has been called, whatever public
\* operations follow, the i-th record of history (counted from 0) carries
\* iteration i.
C4_HistoryIterationIsIndex ==
  lifecycle # "new" =>
    \A i \in 1..Len(history) : history[i].iteration = i - 1

IsPrefix(a, b) == Len(a) <= Len(b) /\ SubSeq(b, 1, Len(a)) = a

C6_InitializePostcondition ==
  ret.op = "initialize" =>
    /\ currentPosition = [x |-> ret.arg[1], y |-> ret.arg[2]]
    /\ velocity = [x |-> 0, y |-> 0]
    /\ iteration = 0
    /\ ~converged
    /\ Len(history) = 1
    /\ history[1].iteration = 0
    /\ history[1].position = [x |-> ret.arg[1], y |-> ret.arg[2]]
    /\ Snapshot.position = [x |-> ret.arg[1], y |-> ret.arg[2]]
    /\ Snapshot.iteration = 0
    /\ ~Snapshot.converged
    /\ ~exportData(Self).statistics.isNull
    /\ exportData(Self).statistics.iterations = 0
    /\ Len(exportData(Self).history) = 1

\* C6 happens: initialize was called on an initialized optimizer that had
\* Converged.
C6_Witness ==
  /\ ret.op = "initialize"
  /\ ret.prior = "initialized"
  /\ ret.from = "Converged"
  /\ Truthy(endTime)
  /\ Len(history) = 1

\* C7 (as claimed): right after initialize is called on an initialized
\* optimizer whose run recorded a start and an end time, startTime and
\* endTime are unset and getStatistics().executionTime is null.
C7_InitializeClearsTiming ==
  (ret.op = "initialize" /\ ret.prior = "initialized" /\ ret.timed) =>
    /\ startTime = NullV
    /\ endTime = NullV
    /\ getStatistics(Self).executionTime = NullV

\* C8 (as claimed): once an initialized optimizer has been Converged or
\* Exhausted, no step() made before the next initialize changes position or
\* iteration, whatever other operations come in between.
C8_TerminalLeftOnlyByInitialize ==
  [][(lifecycle # "new" /\ terminalReached /\ Called("step")) =>
       UNCHANGED <<currentPosition, iteration>>]_vars

\* C8 (amended): a Converged or Exhausted optimizer stays so, with position
\* and iteration unchanged, under every operation other than initialize and
\* reset: step, runSteps, runToConvergence, getCurrentState, getStatistics,
\* exportData and an assignment to config.learningRate.
C8_TerminalLeftOnlyByInitializeOrReset ==
  [][(Terminal /\ ~Called("initialize") /\ ~Called("reset")) =>
       /\ Terminal'
       /\ UNCHANGED <<currentPosition, iteration>>]_vars

\* C8 happens: step() was refused on a Converged optimizer whose learning
\* rate had been changed since its last accepted step.
C8_Witness ==
  /\ lifecycle = "initialized"
  /\ converged
  /\ ret.op = "step"
  /\ ret.exit = "halted"
  /\ Len(history) >= 2
  /\ history[Len(history)].learningRate # config.learningRate

C10_RunStepsContract ==
  [][Called("runSteps") =>
       LET n == ret'.arg[1]
           results == ret'.val
       IN /\ ret'.calls <= n
          /\ Len(results) = ret'.calls
          /\ \A i \in 1..(Len(results) - 1) :
               /\ ~results[i].converged
               /\ results[i].iteration <= results[i + 1].iteration
          /\ Len(results) > 0 => results[Len(results)] = SnapshotAfter
          /\ Len(results) < n => converged'
          /\ converged =>
               /\ results = <<>>
               /\ UNCHANGED <<currentPosition, iteration, history>>]_vars

\* C10 happens: runSteps(2) stopped after its first call, which converged.
C10_Witness ==
  /\ lifecycle = "initialized"
  /\ ret.op = "runSteps"
  /\ ret.arg[1] >= 2
  /\ Len(ret.val) = 1
  /\ ret.val[1].converged
  /\ converged
\* C11: on an initialized optimizer, when no step converges, one runSteps(k)
\* call leaves the position, velocity, iteration, converged flag and history
\* length that k single step() calls from the same state leave, for every k
\* from 0 up.
C11_RunStepsEqualsSingleSteps ==
  [][(Called("runSteps") /\ lifecycle = "initialized" /\ ~converged') =>
       LET single == stepTimes(Self, ret'.arg[1], now)
       IN /\ ~single.converged
          /\ currentPosition' = single.currentPosition
          /\ velocity' = single.velocity
          /\ iteration' = single.iteration
          /\ converged' = single.converged
          /\ Len(history') = Len(single.history)]_vars

\* C11 happens: runSteps(2) on a freshly initialized optimizer with momentum
\* made two accepted steps without converging.
C11_Witness ==
  /\ lifecycle = "initialized"
  /\ ret.op = "runSteps"
  /\ ret.arg[1] = 2
  /\ ret.calls = 2
  /\ ~converged
  /\ iteration = 2
  /\ config.momentum > 0
  /\ velocity # [x |-> 0, y |-> 0]
\* C12: a getCurrentState() call changes none of position, velocity,
\* iteration, converged, history, isRunning, startTime and endTime (nor func
\* and config), and the snapshot it returns carries the current position,
\* iteration and converged flag, with the function value, the gradient and
\* its magnitude those of the function at the current position, whatever
\* history holds.
C12_GetCurrentStateIsPureRead ==
  [][Called("getCurrentState") =>
       LET x == currentPosition.x
           y == currentPosition.y
           s == ret'.val
       IN /\ UNCHANGED <<currentPosition, velocity, iteration, converged,
                         history, isRunning, startTime, endTime, func, config>>
          /\ s.position = currentPosition
          /\ s.iteration = iteration
          /\ s.converged = converged
          /\ s.functionValue = funcValue(func, x, y)
          /\ s.gradient = funcGradient(func, x, y)
          /\ s.gradientMagnitude = vectorMagnitude(funcGradient(func, x, y))]_vars

\* C12 happens: getCurrentState() was called after a reset had emptied
\* history, away from the minimum: the value returned is not in history.
C12_Witness ==
  /\ lifecycle = "reset"
  /\ ret.op = "getCurrentState"
  /\ history = <<>>
  /\ ret.val.functionValue > 0
  /\ ret.val.gradient # [dx |-> 0, dy |-> 0]
  /\ ret.val.position = currentPosition
\* C13: getStatistics() returns null exactly when history is empty, which
\* happens only before initialize or after reset; otherwise it reports
\* iterations = iteration, converged = the converged flag, initialValue and
\* finalValue = the functionValue of the first and the last history record,
\* and improvement = initialValue - finalValue.
C13_GetStatisticsContract ==
  [][Called("getStatistics") =>
       LET stats == ret'.val
       IN /\ stats.isNull <=> history = <<>>
          /\ history = <<>> => lifecycle # "initialized"
          /\ ~stats.isNull =>
               /\ stats.iterations = iteration
               /\ stats.converged = converged
               /\ stats.initialValue = history[1].functionValue
               /\ stats.finalValue = history[Len(history)].functionValue
               /\ stats.improvement = stats.initialValue - stats.finalValue]_vars

\* C13 happens: getStatistics() was called on an optimizer that had stepped
\* to a lower function value and then converged.
C13_Witness ==
  /\ lifecycle = "initialized"
  /\ ret.op = "getStatistics"
  /\ ~ret.val.isNull
  /\ ret.val.iterations >= 1
  /\ ret.val.converged
  /\ ret.val.improvement > 0
  /\ ret.val.initialValue > ret.val.finalValue
\* C14 (as claimed): once a run begun by initialize is Converged or
\* Exhausted, getStatistics().executionTime is a number, measured from a
\* start time that is set, equal to the time from the first step/run* call
\* of the run to the call that ended it, and not negative.
C14_ExecutionTimeOfTerminalRun ==
  (lifecycle = "initialized" /\ Terminal) =>
    LET executionTime == getStatistics(Self).executionTime
    IN /\ executionTime.kind = "num"
       /\ startTime # NullV
       /\ executionTime.v = terminalAt.v - runStart.v
       /\ executionTime.v >= 0
\* This step is a step() call that is accepted: the optimizer is neither
\* Converged nor Exhausted and its gradient is not below tolerance.
AcceptedStep == Called("step") /\ ~Terminal /\ ~GradientBelowTolerance

\* C15: with momentum = 0 and adaptiveLearningRate off, an accepted step()
\* moves position to position - learningRate * gradient(position), adds one
\* to iteration and leaves velocity at (0,0), learningRate being the value
\* config.learningRate has when step() is called, also when it was assigned
\* since the previous step.
C15_VanillaUpdateUsesLiveRate ==
  [][(AcceptedStep /\ config.momentum = 0 /\ ~config.adaptiveLearningRate) =>
       LET x == currentPosition.x
           y == currentPosition.y
           gradient == funcGradient(func, x, y)
           learningRate == config.learningRate
       IN /\ currentPosition' = [x |-> x - FMul(learningRate, gradient.dx),
                                 y |-> y - FMul(learningRate, gradient.dy)]
          /\ iteration' = iteration + 1
          /\ velocity = [x |-> 0, y |-> 0]
          /\ velocity' = [x |-> 0, y |-> 0]
          /\ ret'.val.position = currentPosition'
          /\ ret'.val.learningRate = learningRate]_vars

\* C15 happens: an accepted plain step() used a learning rate that was
\* assigned after the previous state was recorded.
C15_Witness ==
  /\ lifecycle = "initialized"
  /\ ret.op = "step"
  /\ ret.exit = "advanced"
  /\ config.momentum = 0
  /\ ~config.adaptiveLearningRate
  /\ Len(history) >= 2
  /\ history[Len(history)].learningRate # history[Len(history) - 1].learningRate
  /\ history[Len(history)].position # history[Len(history) - 1].position

\* C16: with momentum > 0, an accepted step() sets velocity to
\* momentum * velocity - lr * gradient and adds the new velocity to position,
\* where lr is config.learningRate * initialDecay^iteration (iteration as it
\* is before the increment) when adaptiveLearningRate is on and
\* config.learningRate when it is off.
C16_MomentumUpdateUsesDecayedRate ==
  [][(AcceptedStep /\ config.momentum > 0) =>
       LET x == currentPosition.x
           y == currentPosition.y
           gradient == funcGradient(func, x, y)
           lr == IF config.adaptiveLearningRate
                 THEN FMul(config.learningRate, Pow(config.initialDecay, iteration))
                 ELSE config.learningRate
           vx == FMul(config.momentum, velocity.x) - FMul(lr, gradient.dx)
           vy == FMul(config.momentum, velocity.y) - FMul(lr, gradient.dy)
       IN /\ velocity' = [x |-> vx, y |-> vy]
          /\ currentPosition' = [x |-> x + vx, y |-> y + vy]
          /\ iteration' = iteration + 1]_vars

\* C16 happens: with momentum and adaptiveLearningRate both on, an accepted
\* step() was made at iteration 1, with a velocity left by the step before.
C16_Witness ==
  /\ lifecycle = "initialized"
  /\ ret.op = "step"
  /\ ret.exit = "advanced"
  /\ config.momentum > 0
  /\ config.adaptiveLearningRate
  /\ iteration = 2
  /\ Len(history) = 3
  /\ history[2].position # history[1].position
  /\ velocity # [x |-> 0, y |-> 0]
\* The operations called on the first and on the second optimizer.
OwnOps == {"initialize", "step", "runSteps", "runToConvergence", "reset",
           "getCurrentState", "getStatistics", "exportData", "setLearningRate"}
PeerOps == {"peer.initialize", "peer.step", "peer.setLearningRate"}

WellFormed(expression) ==
  /\ parses(expression)
  /\ Len(expression) > 0
  /\ \A i \in 1..Len(expression) : expression[i] # "z"

\* C18 (as claimed): the CustomFunction constructor throws its descriptive
\* error for every expression that is not well formed, and no value() or
\* gradient() call on a constructed CustomFunction hits an error in the
\* expression or returns anything but numbers.
C18_MalformedRejectedAtConstruction ==
  /\ (ret.op = "new CustomFunction" /\ ~WellFormed(ret.arg)) =>
       /\ ret.val.threw
       /\ ret.val.message = "Invalid function expression"
  /\ ret.op = "custom.value" => (~ret.threw /\ ret.val.kind = "num")
  /\ ret.op = "custom.gradient" =>
       (~ret.threw /\ ret.val.dx.kind = "num" /\ ret.val.dy.kind = "num")
\* C19: each built-in function has gradient (0,0) at the globalMinimum it
\* declares and the value it declares there; and the first step() of an
\* optimizer initialized at that point, whatever positive tolerance it has,
\* marks it converged at iteration 0 without moving it.
C19_BuiltInMinimaConverge ==
  [][/\ \A f \in BuiltInFuncs :
          LET m == globalMinimum(f)
          IN /\ funcGradient(f, m.x, m.y) = [dx |-> 0, dy |-> 0]
             /\ funcValue(f, m.x, m.y) = m.value
     /\ (/\ Called("step")
         /\ ret.op = "initialize"
         /\ currentPosition = [x |-> globalMinimum(func).x,
                               y |-> globalMinimum(func).y]
         /\ config.tolerance > 0) =>
          /\ converged'
          /\ iteration' = 0
          /\ currentPosition' = currentPosition
          /\ ret'.val.converged
          /\ ret'.val.iteration = 0
          /\ ret'.val.functionValue = globalMinimum(func).value]_vars

\* C19 happens: the first step() after initialize at the declared minimum of
\* the Rastrigin function, (0,0), converged under the smallest tolerance.
C19_Witness ==
  /\ func = "rastrigin"
  /\ lifecycle = "initialized"
  /\ ret.op = "step"
  /\ ret.exit = "converged"
  /\ config.tolerance = 1
  /\ currentPosition = [x |-> 0, y |-> 0]
  /\ converged
  /\ iteration = 0
  /\ Len(history) = 1
\* C20: on the quadratic bowl started at (2,2) with learningRate 0.1,
\* tolerance 1e-6, maxIterations 1000 and momentum 0, every accepted step()
\* records a function value strictly below the one recorded before it, and
\* the optimizer converges at an iteration below 1000: iteration never gets
\* to 1000, and every step() made before convergence either is accepted,
\* adding one to iteration, or sets converged.
C20_BowlScenarioConverges ==
  /\ [](/\ \A i \in 2..Len(history) :
            /\ history[i].iteration = history[i - 1].iteration + 1
            /\ DecLess(history[i].functionValue, history[i - 1].functionValue)
        /\ iteration < 1000)
  /\ [][(Called("step") /\ ~converged) =>
          (converged' \/ iteration' = iteration + 1)]_vars

\* C20 happens: the scenario has converged after accepted steps, close to
\* the minimum (1,1).
C20_Witness ==
  /\ config = BowlConfig
  /\ lifecycle = "initialized"
  /\ history[1].position = [x |-> Dec(2, 0), y |-> Dec(2, 0)]
  /\ ret.op = "step"
  /\ ret.exit = "converged"
  /\ converged
  /\ iteration > 10
  /\ iteration < 1000
  /\ Len(history) = iteration + 1
  /\ DecLess(DecSub(currentPosition.x, Dec(1, 0)), Dec(1, 0 - 6))

\* C21: the iteration of the visualizer's optimizer never exceeds the
\* maxIterations option the visualizer was constructed with.
C21_IterationWithinMaxIterationsOption ==
  iteration <= visualizer.options.maxIterations

\* C22: the learningRate of the optimizer's config is the visualizer's
\* learningRate option, after construction and after every call.
C22_OptimizerUsesLearningRateOption ==
  config.learningRate = visualizer.options.learningRate

\* C23: after pause() has returned, from a call of the user or from within
\* step() on convergence, and until play() is called again, no animation-frame
\* callback performs an optimizer step: a callback run in that time leaves the
\* optimizer as it is and calls onConvergence no further time.
C23_NoFrameStepsWhilePaused ==
  [][(Called("frame") /\ paused) =>
       /\ ~ret'.stepped
       /\ UNCHANGED optimizerVars
       /\ onConvergenceCalls' = onConvergenceCalls]_vars

\* A frame callback has run after a step() that found the optimizer converged
\* had paused the visualizer, and before any play().
C23_Witness ==
  /\ ret.op = "frame"
  /\ ret.paused
  /\ paused
  /\ converged
  /\ onConvergenceCalls > 0
  /\ ~visualizer.isPlaying

\* C24: Converged and Exhausted exclude each other: once initialize has been
\* called, converged implies iteration < maxIterations, so an optimizer
\* stopped at iteration = maxIterations is not marked converged, whatever the
\* gradient magnitude at its position.
C24_ConvergedExcludesExhausted ==
  (lifecycle # "new" /\ converged) => iteration < config.maxIterations

\* step() has been refused at iteration = maxIterations at a position where
\* the gradient magnitude is below tolerance.
C24_Witness ==
  /\ lifecycle = "initialized"
  /\ ret.op = "step"
  /\ ret.exit = "halted"
  /\ iteration = config.maxIterations
  /\ GradientBelowTolerance
  /\ ~converged

\* No record of history says converged = true.
NoConvergedRecord == \A i \in 1..Len(history) : ~history[i].converged

\* The last history record says converged = false and carries the optimizer's
\* iteration, and getStatistics() says converged = true.
LastRecordLagsConvergence ==
  /\ Len(history) > 0
  /\ ~history[Len(history)].converged
  /\ history[Len(history)].iteration = iteration
  /\ ~getStatistics(Self).isNull
  /\ getStatistics(Self).converged

NaNGradientAtPosition ==
  \E i \in 1..Len(func.expression) :
    \/ func.expression[i] = "z"
    \/ func.expression[i] = "x" /\ currentPosition.x.kind = "nan"
    \/ func.expression[i] = "y" /\ currentPosition.y.kind = "nan"

\* C26: while the gradient at the current position is NaN the optimizer is
\* not marked converged; a step() or runToConvergence() call leaves the
\* gradient NaN; a step() below the iteration ceiling adds 1 to iteration and
\* appends one record; and runToConvergence() ends at iteration =
\* maxIterations, not converged.
C26_NaNGradientRunsToExhaustion ==
  /\ [](NaNGradientAtPosition => ~converged)
  /\ [][(NaNGradientAtPosition
           /\ (Called("step") \/ Called("runToConvergence"))) =>
          /\ NaNGradientAtPosition'
          /\ ~converged']_vars
  /\ [][(NaNGradientAtPosition /\ Called("step")
           /\ iteration < config.maxIterations) =>
          /\ iteration' = iteration + 1
          /\ Len(history') = Len(history) + 1
          /\ ret'.exit = "advanced"]_vars
  /\ [][(NaNGradientAtPosition /\ Called("runToConvergence")) =>
          /\ ret'.exited
          /\ iteration' = config.maxIterations
          /\ Len(history') = Len(history) + (iteration' - iteration)]_vars

\* runToConvergence() has run an optimizer from a finite start, on a function
\* whose value is NaN everywhere, to the iteration ceiling; the position has
\* become NaN.
C26_Witness ==
  /\ ret.op = "runToConvergence"
  /\ ret.calls = config.maxIterations
  /\ config.maxIterations > 1
  /\ NaNGradientAtPosition
  /\ history[1].position.x.kind = "num"
  /\ currentPosition.x.kind = "nan"
  /\ iteration = config.maxIterations
  /\ ~converged

\* C27: the bundle exportData() returned is a snapshot: a step(), runSteps
\* or runToConvergence call made after the export changes neither the history
\* nor the config of the bundle the caller holds.
C27_ExportedBundleIsSnapshot ==
  [][(Stepping /\ bundle # NoBundle) =>
       /\ bundle'.history = bundle.history
       /\ bundle'.config = bundle.config]_vars

\* C28: while the visualizer is playing, once its optimizer is Converged or
\* Exhausted the playback eventually stops: isPlaying becomes false and no
\* animation-frame callback remains scheduled, unless the user starts a new
\* run first (the optimizer leaves Converged and Exhausted).
C28_PlaybackStopsAtTerminal ==
  (visualizer.isPlaying /\ Terminal)
    ~> (~Terminal \/ (~visualizer.isPlaying /\ frames = {}))

\* C29: at most one animation-frame callback of a visualizer is pending at
\* any time, whatever the interleaving of play(), pause(), step(), reset()
\* and frame callbacks.
C29_AtMostOnePendingFrame == Cardinality(frames) <= 1

====
